---- MODULE Spec2Model ----
(***************************************************************************)
(* Jellyfish Merkle tree: node model and hashing (node_type.rs), ordered   *)
(* traversal (iterator.rs) and snapshot restore (restore.rs).              *)
(*                                                                         *)
(* Hashes are symbolic terms (a collision-free digest): the placeholder is *)
(* <<"PH">>, a leaf hash <<"L", key, value_hash>>, an internal hash        *)
(* <<"I", left, right>> and a value hash <<"V", value>>.  Keys are nibble  *)
(* sequences of ROOT_NIBBLE_HEIGHT nibbles (64 in the crate, scaled here). *)
(* Option<T> is <<>> (None) or <<x>> (Some(x)).                            *)
(***************************************************************************)
EXTENDS Integers, Sequences, FiniteSets, TLC

VARIABLES
    store,      \* the backing store: [nodes: NodeKey -> Node, values: <<version, key>> -> value]
    mode,       \* which scenario this behaviour exercises: "iterate", "restore", "adversary",
                \* "node", "codec" or "readers"
    tree,       \* the key -> [value, version] map of the source tree
    snapshot,   \* restore: the source tree's store and the range proof of every stream key
    stream,     \* restore: the ascending sequence of (key, value) of the snapshot being restored
    expected_root_hash, \* restore: JellyfishMerkleRestore.expected_root_hash
    rs,         \* restore: the restorer (partial_nodes, frozen_nodes, previous_leaf, ...), or none
    fed,        \* restore: the pairs of the add_chunk calls that returned Ok (history)
    last,       \* restore: the most recent restorer call, its outcome, and whether the chunk
                \* it was given had a key out of order (history)
    run,        \* restore: restarts and errors so far, and how the caller has chunked (history)
    it,         \* the iterator (version, parent_stack, done), or absent
    out,        \* iterator history: constructor arguments, items yielded, whether end was returned
    probe,      \* node, codec: the children and node under test, the call made on them, the
                \* bytes written or read and the result
    readers     \* readers: the iterators running side by side over one store, each with its
                \* history (constructor arguments, items yielded, whether end was returned)

vars == <<store, mode, tree, snapshot, stream, expected_root_hash, rs, fed, last, run, it, out,
          probe, readers>>

----------------------------------------------------------------------------
(* Bounds of the model *)

\* number of nibbles of a key hash (ROOT_NIBBLE_HEIGHT is 64 in the crate)
ROOT_NIBBLE_HEIGHT == 3
\* largest number of keys in a tree
MaxKeys == 3
\* largest version of a tree in the iterator scenarios
MaxVersion == 1
\* largest number of restorer calls that may return an error in one behaviour
MaxErrors == 1
\* largest number of times the restoring process is stopped and started again
MaxRestarts == 1
\* largest number of Iterator::next calls that find a read failing in one behaviour
MaxReadErrors == 2
\* calls of Iterator::next made after it has returned end
MaxCallsAfterEnd == 2
\* iterators running side by side over one store
MaxReaders == 2

\* the nibble values keys are built from
KeyNibbles == {5, 11}
\* the values stored under keys
Values == {1, 2}

----------------------------------------------------------------------------
(* Option, sequences, integers *)

None == <<>>
Some(x) == <<x>>
IsSome(o) == o # <<>>
Unwrap(o) == o[1]

Min(a, b) == IF a < b THEN a ELSE b
Max(a, b) == IF a > b THEN a ELSE b

\* 1 << n for n in 0..16
Pow2(n) == <<1, 2, 4, 8, 16, 32, 64, 128, 256, 512, 1024, 2048, 4096, 8192, 16384, 32768,
             65536>>[n + 1]

RECURSIVE Reverse(_)
Reverse(s) == IF s = <<>> THEN <<>> ELSE Append(Reverse(Tail(s)), Head(s))

Prefix(s, n) == SubSeq(s, 1, n)

\* an empty map and map insertion (BTreeMap / HashMap insert: the last write wins)
EmptyMap == <<>>
MapInsert(m, k, v) == (k :> v) @@ m
MapMerge(m, n) == n @@ m

----------------------------------------------------------------------------
(* 16-bit bitmap arithmetic (u16) *)

Bit(b, i) == (b \div Pow2(i)) % 2

RECURSIVE BitAnd(_, _)
BitAnd(a, b) ==
    IF a = 0 \/ b = 0 THEN 0
    ELSE (a % 2) * (b % 2) + 2 * BitAnd(a \div 2, b \div 2)

RECURSIVE count_ones(_)
count_ones(b) == IF b = 0 THEN 0 ELSE (b % 2) + count_ones(b \div 2)

\* u16::trailing_zeros: 16 for zero
RECURSIVE trailing_zeros(_)
trailing_zeros(b) == IF b = 0 THEN 16 ELSE IF b % 2 = 1 THEN 0 ELSE 1 + trailing_zeros(b \div 2)

\* u16::leading_zeros: 16 for zero
RECURSIVE BitLength(_)
BitLength(b) == IF b = 0 THEN 0 ELSE 1 + BitLength(b \div 2)
leading_zeros(b) == 16 - BitLength(b)

\* x << 1 on a u16: the top bit is shifted out
Shl1(b) == (2 * b) % 65536

----------------------------------------------------------------------------
(* Key hashes and nibble paths *)

RECURSIVE NibbleSeqs(_, _)
NibbleSeqs(S, n) ==
    IF n = 0 THEN {<<>>} ELSE {Append(s, x) : s \in NibbleSeqs(S, n - 1), x \in S}

Keys == NibbleSeqs(KeyNibbles, ROOT_NIBBLE_HEIGHT)

\* KeyHash ordering: big-endian byte string comparison
RECURSIVE KeyNum(_)
KeyNum(k) == IF k = <<>> THEN 0 ELSE 16 * KeyNum(Prefix(k, Len(k) - 1)) + k[Len(k)]
KeyLess(a, b) == KeyNum(a) < KeyNum(b)
KeyLeq(a, b) == KeyNum(a) <= KeyNum(b)

\* Bytes32Ext::get_nibble (0-based index)
get_nibble(k, i) == k[i + 1]

\* Bytes32Ext::iter_bits, bit i (0-based, most significant first)
KeyBit(k, i) == Bit(k[(i \div 4) + 1], 3 - (i % 4))
NumBits == 4 * ROOT_NIBBLE_HEIGHT

\* Bytes32Ext::common_prefix_nibbles_len
RECURSIVE CommonPrefixFrom(_, _, _)
CommonPrefixFrom(a, b, i) ==
    IF i > Len(a) \/ i > Len(b) \/ a[i] # b[i] THEN 0 ELSE 1 + CommonPrefixFrom(a, b, i + 1)
common_prefix_nibbles_len(a, b) == CommonPrefixFrom(a, b, 1)

IsPrefix(p, k) == Len(p) <= Len(k) /\ Prefix(k, Len(p)) = p

----------------------------------------------------------------------------
(* Hashes *)

SPARSE_MERKLE_PLACEHOLDER_HASH == <<"PH">>
SparseMerkleInternalNodeHash(l, r) == <<"I", l, r>>
SparseMerkleLeafNodeHash(key, value_hash) == <<"L", key, value_hash>>
ValueHashWith(v) == <<"V", v>>

----------------------------------------------------------------------------
(* node_type.rs: NodeKey, Child, InternalNode, LeafNode, Node *)

NodeKeyNew(version, nibble_path) == [version |-> version, nibble_path |-> nibble_path]
new_empty_path(version) == NodeKeyNew(version, <<>>)
\* a variant of gen_child_node_key that keeps the version of the parent's node key
gen_child_node_key_same_version(nk, version, n) ==
    NodeKeyNew(nk.version, Append(nk.nibble_path, n))
gen_child_node_key(nk, version, n) == NodeKeyNew(version, Append(nk.nibble_path, n))
\* defined for a non-empty nibble path only (the code asserts it)
gen_parent_node_key(nk) ==
    NodeKeyNew(nk.version, Prefix(nk.nibble_path, Len(nk.nibble_path) - 1))

NodeTypeLeaf == [t |-> "Leaf"]
NodeTypeInternalLegacy == [t |-> "InternalLegacy"]
NodeTypeInternal(n) == [t |-> "Internal", leaf_count |-> n]

ChildNew(hash, version, node_type) == [hash |-> hash, version |-> version, node_type |-> node_type]
ChildIsLeaf(c) == c.node_type.t = "Leaf"
ChildLeafCount(c) ==
    IF c.node_type.t = "Leaf" THEN Some(1)
    ELSE IF c.node_type.t = "InternalLegacy" THEN None
    ELSE Some(c.node_type.leaf_count)

\* Children: 16 slots of Option<Child>, slot n at position n + 1 of a tuple
Slots == 0..15
SixteenNone == <<None, None, None, None, None, None, None, None,
                 None, None, None, None, None, None, None, None>>
ChildAt(children, n) == children[n + 1]
ChildrenNew == SixteenNone
ChildrenInsert(children, nibble, child) == [children EXCEPT ![nibble + 1] = Some(child)]
NumChildren(children) == Cardinality({i \in Slots : IsSome(ChildAt(children, i))})

RECURSIVE SumLeafCountFrom(_, _)
SumLeafCountFrom(children, i) ==
    IF i = 16 THEN Some(0)
    ELSE IF ~IsSome(ChildAt(children, i)) THEN SumLeafCountFrom(children, i + 1)
    ELSE LET n == ChildLeafCount(Unwrap(ChildAt(children, i)))
             rest == SumLeafCountFrom(children, i + 1)
         IN IF IsSome(n) /\ IsSome(rest) THEN Some(Unwrap(n) + Unwrap(rest)) ELSE None
sum_leaf_count(children) == SumLeafCountFrom(children, 0)

\* a variant of the check below that lets a single leaf child through
InternalNodeNonEmpty(children) == NumChildren(children) >= 1
\* InternalNode::new_impl: Err (None here) on empty children or a single leaf child
InternalNodeValid(children) ==
    /\ NumChildren(children) >= 1
    /\ NumChildren(children) = 1 =>
          \A i \in Slots :
              IsSome(ChildAt(children, i)) => ~ChildIsLeaf(Unwrap(ChildAt(children, i)))
new_impl(children, leaf_count_migration) ==
    IF InternalNodeValid(children)
    THEN Some([type |-> "Internal", children |-> children,
               leaf_count |-> sum_leaf_count(children),
               leaf_count_migration |-> leaf_count_migration])
    ELSE None

\* the bytes of a value of the model: one byte
ValueBytes(value) == <<value>>
\* LeafNode::new of node_type.rs: the leaf keeps the value next to its hash
LeafNodeNew(key_hash, value) ==
    [type |-> "Leaf", key_hash |-> key_hash, value_hash |-> ValueHashWith(value),
     value |-> ValueBytes(value)]
\* LeafNode::new(key, value_hash) as restore.rs calls it: the leaf of a key hash and a value
\* hash, the value being kept in the store's values
LeafNodeNewHashed(key_hash, value_hash) ==
    [type |-> "Leaf", key_hash |-> key_hash, value_hash |-> value_hash]
LeafNodeHash(leaf) == SparseMerkleLeafNodeHash(leaf.key_hash, leaf.value_hash)
NodeNull == [type |-> "Null"]

RECURSIVE BitmapFrom(_, _, _)
BitmapFrom(children, leaves_only, i) ==
    IF i = 16 THEN 0
    ELSE (IF IsSome(ChildAt(children, i))
             /\ (~leaves_only \/ ChildIsLeaf(Unwrap(ChildAt(children, i))))
          THEN Pow2(i) ELSE 0) + BitmapFrom(children, leaves_only, i + 1)
\* InternalNode::generate_bitmaps: <<existence_bitmap, leaf_bitmap>>
generate_bitmaps(node) ==
    <<BitmapFrom(node.children, FALSE, 0), BitmapFrom(node.children, TRUE, 0)>>

\* InternalNode::range_bitmaps
range_bitmaps(start, width, bitmaps) ==
    LET mask == (Pow2(width) - 1) * Pow2(start)
    IN <<BitAnd(bitmaps[1], mask), BitAnd(bitmaps[2], mask)>>

\* a variant of merkle_hash that collapses a range holding one child whatever its type
RECURSIVE merkle_hash_collapsing(_, _, _, _)
merkle_hash_collapsing(node, start, width, bitmaps) ==
    LET range == range_bitmaps(start, width, bitmaps)
    IN IF range[1] = 0 THEN SPARSE_MERKLE_PLACEHOLDER_HASH
       ELSE IF width = 1 \/ count_ones(range[1]) = 1
       THEN Unwrap(ChildAt(node.children, trailing_zeros(range[1]))).hash
       ELSE SparseMerkleInternalNodeHash(
                merkle_hash_collapsing(node, start, width \div 2, range),
                merkle_hash_collapsing(node, start + width \div 2, width \div 2, range))
\* InternalNode::merkle_hash
RECURSIVE merkle_hash(_, _, _, _)
merkle_hash(node, start, width, bitmaps) ==
    LET range == range_bitmaps(start, width, bitmaps)
    IN IF range[1] = 0 THEN SPARSE_MERKLE_PLACEHOLDER_HASH
       ELSE IF width = 1 \/ (count_ones(range[1]) = 1 /\ range[2] # 0)
       THEN Unwrap(ChildAt(node.children, trailing_zeros(range[1]))).hash
       ELSE SparseMerkleInternalNodeHash(
                merkle_hash(node, start, width \div 2, range),
                merkle_hash(node, start + width \div 2, width \div 2, range))

InternalNodeHash(node) == merkle_hash(node, 0, 16, generate_bitmaps(node))

\* a variant of get_child_and_sibling_half_start whose sibling half always lies above
get_child_and_sibling_half_start_above(n, height) ==
    <<(n \div Pow2(height)) * Pow2(height),
      ((n \div Pow2(height)) * Pow2(height) + Pow2(height)) % 16>>
\* get_child_and_sibling_half_start
get_child_and_sibling_half_start(n, height) ==
    LET child_half_start == (n \div Pow2(height)) * Pow2(height)
        sibling_half_start ==
            IF Bit(child_half_start, height) = 1
            THEN child_half_start - Pow2(height) ELSE child_half_start + Pow2(height)
    IN <<child_half_start, sibling_half_start>>

\* InternalNode::get_child_with_siblings: <<Option<NodeKey>, siblings>>, height h downward
RECURSIVE GetChildWithSiblingsFrom(_, _, _, _, _)
GetChildWithSiblingsFrom(node, node_key, n, h, siblings) ==
    LET bitmaps == generate_bitmaps(node)
        width == Pow2(h)
        halves == get_child_and_sibling_half_start(n, h)
        sibs == Append(siblings, merkle_hash(node, halves[2], width, bitmaps))
        range == range_bitmaps(halves[1], width, bitmaps)
    IN IF range[1] = 0 THEN <<None, sibs>>
       ELSE IF width = 1 \/ (count_ones(range[1]) = 1 /\ range[2] # 0)
       THEN LET only_child_index == trailing_zeros(range[1])
            IN <<Some(gen_child_node_key(node_key,
                          Unwrap(ChildAt(node.children, only_child_index)).version,
                          only_child_index)), sibs>>
       ELSE GetChildWithSiblingsFrom(node, node_key, n, h - 1, sibs)
get_child_with_siblings(node, node_key, n) ==
    GetChildWithSiblingsFrom(node, node_key, n, 3, <<>>)

\* get_child_half_start: `(0xff << height) & n`
get_child_half_start(n, height) == (n \div Pow2(height)) * Pow2(height)

\* InternalNode::get_child_without_siblings: Option<NodeKey>, height h downward
RECURSIVE GetChildWithoutSiblingsFrom(_, _, _, _)
GetChildWithoutSiblingsFrom(node, node_key, n, h) ==
    LET range == range_bitmaps(get_child_half_start(n, h), Pow2(h), generate_bitmaps(node))
        only_child_index == trailing_zeros(range[1])
    IN IF range[1] = 0 THEN None
       ELSE IF Pow2(h) = 1 \/ (count_ones(range[1]) = 1 /\ range[2] # 0)
       THEN Some(gen_child_node_key(node_key,
                     Unwrap(ChildAt(node.children, only_child_index)).version,
                     only_child_index))
       ELSE GetChildWithoutSiblingsFrom(node, node_key, n, h - 1)
\* a variant of get_child_without_siblings that returns a child only at the index asked for
get_child_without_siblings_exact(node, node_key, n) ==
    IF IsSome(ChildAt(node.children, n))
    THEN GetChildWithoutSiblingsFrom(node, node_key, n, 3)
    ELSE None
get_child_without_siblings(node, node_key, n) ==
    GetChildWithoutSiblingsFrom(node, node_key, n, 3)

\* Node::leaf_count
NodeLeafCount(node) ==
    IF node.type = "Null" THEN Some(0)
    ELSE IF node.type = "Leaf" THEN Some(1)
    ELSE node.leaf_count

\* Node::hash
NodeHash(node) ==
    IF node.type = "Null" THEN SPARSE_MERKLE_PLACEHOLDER_HASH
    ELSE IF node.type = "Internal" THEN InternalNodeHash(node)
    ELSE LeafNodeHash(node)

----------------------------------------------------------------------------
(* The store collaborator (TreeReader / TreeWriter) and NodeBatch *)

EmptyBatch == [nodes |-> EmptyMap, values |-> EmptyMap]
BatchIsEmpty(b) == DOMAIN b.nodes = {} /\ DOMAIN b.values = {}
insert_node(b, node_key, node) == [b EXCEPT !.nodes = MapInsert(b.nodes, node_key, node)]
insert_value(b, version, key, value) ==
    [b EXCEPT !.values = MapInsert(b.values, <<version, key>>, value)]

\* what the store is once batch b is in it
BatchMerged(st, b) ==
    [nodes |-> MapMerge(st.nodes, b.nodes), values |-> MapMerge(st.values, b.values)]
\* TreeWriter::write_node_batch, which returns a Result: Some(the store with the batch) when
\* the store accepts the write, None for the Err of a store that refuses it and stays as it was
write_node_batch(st, b, accepts) == IF accepts THEN Some(BatchMerged(st, b)) ELSE None

\* TreeReader::get_node_option
get_node_option(st, node_key) ==
    IF node_key \in DOMAIN st.nodes THEN Some(st.nodes[node_key]) ELSE None

\* TreeReader::get_value: the value of key_hash at the latest version <= version; None is Err
get_value(st, version, key_hash) ==
    LET vs == {v \in 0..version : <<v, key_hash>> \in DOMAIN st.values}
    IN IF vs = {} THEN None
       ELSE Some(st.values[<<CHOOSE v \in vs : \A w \in vs : w <= v, key_hash>>])

\* TreeReader::get_rightmost_leaf: the stored leaf node with the largest key hash
get_rightmost_leaf(st) ==
    LET leaves == {nk \in DOMAIN st.nodes : st.nodes[nk].type = "Leaf"}
    IN IF leaves = {} THEN None
       ELSE LET nk == CHOOSE a \in leaves :
                         \A b \in leaves : KeyLeq(st.nodes[b].key_hash, st.nodes[a].key_hash)
            IN Some(<<nk, st.nodes[nk]>>)

----------------------------------------------------------------------------
(* The reference tree: what the normal insertion path leaves in the store   *)
(* for a key -> [value, version] map t (a key is inserted at its version).  *)

KeysAt(t, v) == {k \in DOMAIN t : t[k].version <= v}
KeysUnder(K, p) == {k \in K : IsPrefix(p, k)}
ParentPath(p) == Prefix(p, Len(p) - 1)

\* a node sits at path p of the tree over K: the root, or a non-empty subtree whose
\* parent subtree holds at least two keys
NodeAt(K, p) ==
    \/ p = <<>>
    \/ KeysUnder(K, p) # {} /\ Cardinality(KeysUnder(K, ParentPath(p))) >= 2

\* the version at which the node at path p of the tree at version v was written
RefNodeVersion(t, v, p) ==
    IF p = <<>> THEN v
    ELSE CHOOSE w \in 0..v :
            /\ NodeAt(KeysAt(t, w), p) /\ KeysUnder(KeysAt(t, w), p) = KeysUnder(KeysAt(t, v), p)
            /\ \A u \in 0..(w - 1) :
                  ~(NodeAt(KeysAt(t, u), p)
                    /\ KeysUnder(KeysAt(t, u), p) = KeysUnder(KeysAt(t, v), p))

RECURSIVE RefNode(_, _, _)
RefNode(t, v, p) ==
    LET ks == KeysUnder(KeysAt(t, v), p)
    IN IF ks = {} THEN NodeNull
       ELSE IF Cardinality(ks) = 1
       THEN LET k == CHOOSE k \in ks : TRUE
            IN LeafNodeNewHashed(k, ValueHashWith(t[k].value))
       ELSE LET child(n) ==
                    LET q == Append(p, n)
                        sub == RefNode(t, v, q)
                    IN IF KeysUnder(ks, q) = {} THEN None
                       ELSE Some(ChildNew(NodeHash(sub), RefNodeVersion(t, v, q),
                                    IF sub.type = "Leaf" THEN NodeTypeLeaf
                                    ELSE NodeTypeInternal(Cardinality(KeysUnder(ks, q)))))
            IN Unwrap(new_impl(<<child(0), child(1), child(2), child(3), child(4), child(5),
                                 child(6), child(7), child(8), child(9), child(10),
                                 child(11), child(12), child(13), child(14), child(15)>>,
                               TRUE))

RefPaths(t, v) ==
    {p \in UNION {{Prefix(k, n) : n \in 0..Len(k)} : k \in KeysAt(t, v)} \cup {<<>>} :
        NodeAt(KeysAt(t, v), p)}

\* the nodes of the entries <<path, version of the tree>>, under their node keys
RECURSIVE RefNodesOf(_, _)
RefNodesOf(t, entries) ==
    IF entries = {} THEN EmptyMap
    ELSE LET e == CHOOSE e \in entries : TRUE
         IN (NodeKeyNew(RefNodeVersion(t, e[2], e[1]), e[1]) :> RefNode(t, e[2], e[1]))
            @@ RefNodesOf(t, entries \ {e})
RECURSIVE RefValuesOf(_, _)
RefValuesOf(t, keys) ==
    IF keys = {} THEN EmptyMap
    ELSE LET k == CHOOSE k \in keys : TRUE
         IN (<<t[k].version, k>> :> t[k].value) @@ RefValuesOf(t, keys \ {k})
RefStore(t, versions) ==
    [nodes |-> RefNodesOf(t, UNION {RefPaths(t, v) \X {v} : v \in versions}),
     values |-> RefValuesOf(t, DOMAIN t)]

RefRootHash(t, v) == NodeHash(RefNode(t, v, <<>>))

\* JellyfishMerkleTree::get_range_proof: the siblings on the right of the path from the
\* root to key, the ones near the bottom first
RECURSIVE ProofSiblingsFrom(_, _, _, _, _)
ProofSiblingsFrom(st, node_key, key, depth, siblings) ==
    LET node == st.nodes[node_key]
    IN IF node.type # "Internal" THEN siblings
       ELSE LET r == get_child_with_siblings(node, node_key, get_nibble(key, depth))
            IN IF IsSome(r[1])
               THEN ProofSiblingsFrom(st, Unwrap(r[1]), key, depth + 1, siblings \o r[2])
               ELSE siblings \o r[2]
RECURSIVE RightSiblingsFrom(_, _, _)
RightSiblingsFrom(top_down, key, i) ==
    IF i > Len(top_down) THEN <<>>
    ELSE (IF KeyBit(key, i - 1) = 0 THEN <<top_down[i]>> ELSE <<>>)
         \o RightSiblingsFrom(top_down, key, i + 1)
get_range_proof(st, version, key) ==
    Reverse(RightSiblingsFrom(ProofSiblingsFrom(st, new_empty_path(version), key, 0, <<>>),
                              key, 1))

\* SparseMerkleRangeProof::verify: fold the leaf hash with the siblings from the bottom
\* up along the bits of the key; TRUE is Ok
RECURSIVE ProofFold(_, _, _, _, _)
ProofFold(key, i, lefts, rights, current) ==
    IF i < 0 THEN Some(current)
    ELSE IF KeyBit(key, i) = 1
    THEN IF lefts = <<>> THEN None
         ELSE ProofFold(key, i - 1, Tail(lefts), rights,
                        SparseMerkleInternalNodeHash(Head(lefts), current))
    ELSE IF rights = <<>> THEN None
         ELSE ProofFold(key, i - 1, lefts, Tail(rights),
                        SparseMerkleInternalNodeHash(current, Head(rights)))
ProofVerify(right_siblings, root_hash, leaf_key, leaf_value_hash, left_siblings) ==
    LET num_siblings == Len(left_siblings) + Len(right_siblings)
        r == ProofFold(leaf_key, num_siblings - 1, left_siblings, right_siblings,
                       SparseMerkleLeafNodeHash(leaf_key, leaf_value_hash))
    IN num_siblings <= NumBits /\ IsSome(r) /\ Unwrap(r) = root_hash

----------------------------------------------------------------------------
(* iterator.rs: NodeVisitInfo *)

\* TreeReader::get_node: None is Err (the node must exist)
get_node(st, node_key) == get_node_option(st, node_key)

VisitInfo(node_key, node, children_bitmap, next_child_to_visit) ==
    [node_key |-> node_key, node |-> node, children_bitmap |-> children_bitmap,
     next_child_to_visit |-> next_child_to_visit]

\* a variant of the loop below that never shifts
ShiftToChildNever(next_child_to_visit, children_bitmap) == next_child_to_visit
\* the `while next_child_to_visit & children_bitmap == 0 { next_child_to_visit <<= 1 }` loop;
\* it is entered only when a child at or above the bit exists
RECURSIVE ShiftToChild(_, _)
ShiftToChild(next_child_to_visit, children_bitmap) ==
    IF BitAnd(next_child_to_visit, children_bitmap) # 0 THEN next_child_to_visit
    ELSE ShiftToChild(Shl1(next_child_to_visit), children_bitmap)

\* NodeVisitInfo::new; None when the assertion fails
NodeVisitInfoNew(node_key, node) ==
    LET children_bitmap == generate_bitmaps(node)[1]
    IN IF children_bitmap = 0 THEN None
       ELSE Some(VisitInfo(node_key, node, children_bitmap,
                           Pow2(trailing_zeros(children_bitmap))))

\* NodeVisitInfo::new_next_child_to_visit; None when the assertion fails
new_next_child_to_visit(node_key, node, nibble) ==
    LET children_bitmap == generate_bitmaps(node)[1]
        next_child_to_visit == Pow2(nibble)
    IN IF ~(children_bitmap >= next_child_to_visit) THEN None
       ELSE Some(VisitInfo(node_key, node, children_bitmap,
                           ShiftToChild(next_child_to_visit, children_bitmap)))

\* NodeVisitInfo::is_rightmost; what it asserts of the entry is IsRightmostAsserted
is_rightmost(info) ==
    leading_zeros(info.next_child_to_visit) = leading_zeros(info.children_bitmap)

\* a variant of advance that leaves next_child_to_visit where it is
advance_unshifted(info) == info
\* NodeVisitInfo::advance; cleanup_stack calls it only when is_rightmost is false, which
\* is what it asserts
advance(info) ==
    [info EXCEPT !.next_child_to_visit =
        ShiftToChild(Shl1(info.next_child_to_visit), info.children_bitmap)]

\* JellyfishMerkleIterator::cleanup_stack
RECURSIVE cleanup_stack(_)
cleanup_stack(parent_stack) ==
    IF parent_stack = <<>> THEN parent_stack
    ELSE LET n == Len(parent_stack)
         IN IF is_rightmost(parent_stack[n]) THEN cleanup_stack(Prefix(parent_stack, n - 1))
            ELSE [parent_stack EXCEPT ![n] = advance(parent_stack[n])]

----------------------------------------------------------------------------
(* iterator.rs: JellyfishMerkleIterator *)

IterOk(version, parent_stack, done) ==
    [status |-> "ok", version |-> version, parent_stack |-> parent_stack, done |-> done]
IterErr == [status |-> "err"]
IterPanic == [status |-> "panic"]
NoIter == [status |-> "none"]

\* a variant of the comparison below that also counts the leaf at the starting key as passed
LeafAtOrBelowStart(leaf_node, starting_key) == KeyLeq(leaf_node.key_hash, starting_key)
\* `leaf_node.key_hash() < starting_key` of JellyfishMerkleIterator::new
LeafBelowStart(leaf_node, starting_key) == KeyLess(leaf_node.key_hash, starting_key)

\* a variant of the step below that never sets `done`
PassedLeafNotDone(version, parent_stack) == IterOk(version, cleanup_stack(parent_stack), FALSE)
\* JellyfishMerkleIterator::new at a leaf below the starting key: the stack is cleaned up,
\* and the iterator is done when nothing is left on it
PassedLeaf(version, parent_stack) ==
    IterOk(version, cleanup_stack(parent_stack), cleanup_stack(parent_stack) = <<>>)

\* JellyfishMerkleIterator::new
RECURSIVE IterNewWalk(_, _, _, _, _, _)
IterNewWalk(st, version, starting_key, parent_stack, current_node_key, depth) ==
    LET got == get_node(st, current_node_key)
        node == Unwrap(got)
    IN IF ~IsSome(got) THEN IterErr
       ELSE IF node.type = "Internal"
       THEN IF depth >= Len(starting_key) THEN IterPanic
            ELSE LET child_index == get_nibble(starting_key, depth)
                     child == ChildAt(node.children, child_index)
                     info == new_next_child_to_visit(current_node_key, node, child_index)
                 IN IF IsSome(child)
                    THEN IF ~IsSome(info) THEN IterPanic
                         ELSE IterNewWalk(st, version, starting_key,
                                  Append(parent_stack, Unwrap(info)),
                                  gen_child_node_key(current_node_key,
                                      Unwrap(child).version, child_index),
                                  depth + 1)
                    ELSE IF child_index < 15 - leading_zeros(generate_bitmaps(node)[1])
                    THEN IF ~IsSome(info) THEN IterPanic
                         ELSE IterOk(version, Append(parent_stack, Unwrap(info)), FALSE)
                    ELSE IterOk(version, cleanup_stack(parent_stack), FALSE)
       ELSE IF node.type = "Leaf"
       THEN IF LeafBelowStart(node, starting_key)
            THEN PassedLeaf(version, parent_stack)
            ELSE IterOk(version, parent_stack, FALSE)
       ELSE IterOk(version, parent_stack, TRUE)
\* a variant of the node key below that is the root of the latest version
StartingNodeKeyLatest(version) == new_empty_path(MaxVersion)
\* `let mut current_node_key = NodeKey::new_empty_path(version)` of
\* JellyfishMerkleIterator::new: the walk starts at the root of the iterator's version
StartingNodeKey(version) == new_empty_path(version)
IteratorNew(st, version, starting_key) ==
    IterNewWalk(st, version, starting_key, <<>>, StartingNodeKey(version), 0)

\* JellyfishMerkleIterator::skip_leaves: <<nibble, child, leaves_skipped>>, or None (Err)
RECURSIVE SkipLeavesFrom(_, _, _, _)
SkipLeavesFrom(internal_node, leaves_skipped, target_leaf_idx, n) ==
    IF n = 16 THEN None
    ELSE IF ~IsSome(ChildAt(internal_node.children, n))
    THEN SkipLeavesFrom(internal_node, leaves_skipped, target_leaf_idx, n + 1)
    ELSE LET child == Unwrap(ChildAt(internal_node.children, n))
             child_leaf_count == ChildLeafCount(child)
         IN IF ~IsSome(child_leaf_count) THEN None
            ELSE IF leaves_skipped + Unwrap(child_leaf_count) <= target_leaf_idx
            THEN SkipLeavesFrom(internal_node, leaves_skipped + Unwrap(child_leaf_count),
                                target_leaf_idx, n + 1)
            ELSE Some(<<n, child, leaves_skipped>>)
\* a variant of skip_leaves whose test is `<` where the code has `<=`
skip_leaves_exclusive(internal_node, leaves_skipped, target_leaf_idx) ==
    SkipLeavesFrom(internal_node, leaves_skipped, target_leaf_idx - 1, 0)
skip_leaves(internal_node, leaves_skipped, target_leaf_idx) ==
    SkipLeavesFrom(internal_node, leaves_skipped, target_leaf_idx, 0)

\* JellyfishMerkleIterator::new_by_index
RECURSIVE IterByIndexWalk(_, _, _, _, _, _, _)
IterByIndexWalk(st, version, start_idx, parent_stack, current_node_key, leaves_skipped, round) ==
    LET got == get_node(st, current_node_key)
        node == Unwrap(got)
    IN IF ~IsSome(got) THEN IterErr
       ELSE IF round > ROOT_NIBBLE_HEIGHT THEN IterErr
       ELSE IF node.type = "Null" THEN IterPanic
       ELSE IF node.type = "Leaf"
       THEN IF leaves_skipped = start_idx THEN IterOk(version, parent_stack, FALSE) ELSE IterErr
       ELSE LET r == skip_leaves(node, leaves_skipped, start_idx)
            IN IF ~IsSome(r) THEN IterErr
               ELSE LET nibble == Unwrap(r)[1]
                        child == Unwrap(r)[2]
                        info == new_next_child_to_visit(current_node_key, node, nibble)
                    IN IF ~IsSome(info) THEN IterPanic
                       ELSE IterByIndexWalk(st, version, start_idx,
                                Append(parent_stack, Unwrap(info)),
                                gen_child_node_key(current_node_key, child.version, nibble),
                                Unwrap(r)[3], round + 1)
IteratorNewByIndex(st, version, start_idx) ==
    LET got == get_node(st, new_empty_path(version))
        total_leaves == NodeLeafCount(Unwrap(got))
    IN IF ~IsSome(got) THEN IterErr
       ELSE IF ~IsSome(total_leaves) THEN IterErr
       ELSE IF start_idx >= Unwrap(total_leaves) THEN IterOk(version, <<>>, TRUE)
       ELSE IterByIndexWalk(st, version, start_idx, <<>>, new_empty_path(version), 0, 0)

\* Iterator::next: [it |-> the iterator afterwards, result |-> <<"end">>, <<"item", key,
\* value>>, <<"err">> or <<"panic">>]
NextResult(iter, result) == [it |-> iter, result |-> result]

RECURSIVE IterNextLoop(_, _, _)
IterNextLoop(st, iter, parent_stack) ==
    LET info == parent_stack[Len(parent_stack)]
        child_index == trailing_zeros(info.next_child_to_visit)
        child == ChildAt(info.node.children, child_index)
        node_key == gen_child_node_key(info.node_key, Unwrap(child).version, child_index)
        got == get_node(st, node_key)
        node == Unwrap(got)
        here == [iter EXCEPT !.parent_stack = parent_stack]
    IN IF child_index > 15 THEN NextResult(here, <<"panic">>)
       ELSE IF ~IsSome(child) THEN NextResult(here, <<"panic">>)
       ELSE IF ~IsSome(got) THEN NextResult(here, <<"err">>)
       ELSE IF node.type = "Internal"
       THEN LET visit_info == NodeVisitInfoNew(node_key, node)
            IN IF ~IsSome(visit_info) THEN NextResult(here, <<"panic">>)
               ELSE IterNextLoop(st, iter, Append(parent_stack, Unwrap(visit_info)))
       ELSE IF node.type = "Leaf"
       THEN LET value == get_value(st, node_key.version, node.key_hash)
            IN IF ~IsSome(value) THEN NextResult(here, <<"err">>)
               ELSE NextResult([iter EXCEPT !.parent_stack = cleanup_stack(parent_stack)],
                               <<"item", node.key_hash, Unwrap(value)>>)
       ELSE NextResult(here, <<"err">>)

\* a variant of the step below that leaves `done` unset
RootLeafYieldedAgain(iter, key_hash, value) ==
    NextResult(iter, IF IsSome(value) THEN <<"item", key_hash, Unwrap(value)>> ELSE <<"err">>)
\* Iterator::next on a tree that is a single leaf: `self.done = true`, then the pair of the
\* leaf, or the error of get_value
RootLeafYielded(iter, key_hash, value) ==
    NextResult([iter EXCEPT !.done = TRUE],
               IF IsSome(value) THEN <<"item", key_hash, Unwrap(value)>> ELSE <<"err">>)

IteratorNext(st, iter) ==
    IF iter.done THEN NextResult(iter, <<"end">>)
    ELSE IF iter.parent_stack = <<>>
    THEN LET root_node_key == new_empty_path(iter.version)
             got == get_node(st, root_node_key)
             node == Unwrap(got)
         IN IF ~IsSome(got) THEN NextResult(iter, <<"err">>)
            ELSE IF node.type = "Leaf"
            THEN RootLeafYielded(iter, node.key_hash,
                                 get_value(st, root_node_key.version, node.key_hash))
            ELSE IF node.type = "Internal" THEN NextResult(iter, <<"end">>)
            ELSE NextResult(iter, <<"panic">>)
    ELSE IterNextLoop(st, iter, iter.parent_stack)

----------------------------------------------------------------------------
(* restore.rs: ChildInfo, InternalInfo *)

ChildInfoInternal(hash, leaf_count) == [t |-> "Internal", hash |-> hash, leaf_count |-> leaf_count]
ChildInfoLeaf(node) == [t |-> "Leaf", node |-> node]

\* ChildInfo::into_child; None when `hash.expect("Must have been initialized.")` panics
into_child(child_info, version) ==
    IF child_info.t = "Internal"
    THEN IF IsSome(child_info.hash)
         THEN Some(ChildNew(Unwrap(child_info.hash), version,
                            NodeTypeInternal(child_info.leaf_count)))
         ELSE None
    ELSE Some(ChildNew(LeafNodeHash(child_info.node), version, NodeTypeLeaf))

\* a variant of the count below that counts the children of the node, not its leaves
KnownLeafCountOfChildren(internal_node) ==
    Cardinality({n \in Slots : IsSome(ChildAt(internal_node.children, n))})
\* internal_node.leaf_count() where restore.rs stores it in a `usize` field: the count of
\* a node whose children all carry one (every node a restorer writes does)
KnownLeafCount(internal_node) ==
    IF IsSome(internal_node.leaf_count) THEN Unwrap(internal_node.leaf_count) ELSE 0

\* a variant of the constructor below that gives every node the key of the root
InternalInfoNewEmptyAtRoot(node_key) ==
    [node_key |-> new_empty_path(node_key.version), children |-> SixteenNone]
\* InternalInfo::new_empty
InternalInfoNewEmpty(node_key) == [node_key |-> node_key, children |-> SixteenNone]
set_child(info, index, child_info) ==
    [info EXCEPT !.children = [@ EXCEPT ![index + 1] = Some(child_info)]]

\* children.iter().rposition(|x| x.is_some()); -1 for None
RECURSIVE RPositionFrom(_, _)
RPositionFrom(children, i) ==
    IF i < 0 THEN -1
    ELSE IF IsSome(ChildAt(children, i)) THEN i ELSE RPositionFrom(children, i - 1)
rposition(children) == RPositionFrom(children, 15)

\* InternalInfo::into_internal_node: Some(<<node_key, node>>); None when into_child or
\* InternalNode::new panics
RECURSIVE IntoChildrenFrom(_, _, _)
IntoChildrenFrom(info_children, version, i) ==
    IF i = 16 THEN Some(<<>>)
    ELSE LET rest == IntoChildrenFrom(info_children, version, i + 1)
             slot == ChildAt(info_children, i)
             child == into_child(Unwrap(slot), version)
         IN IF ~IsSome(rest) THEN None
            ELSE IF ~IsSome(slot) THEN Some(<<None>> \o Unwrap(rest))
            ELSE IF ~IsSome(child) THEN None
            ELSE Some(<<Some(Unwrap(child))>> \o Unwrap(rest))
\* `InternalNode::new(children)`, which panics when new_impl is an Err
InternalNodeNew(node_key, node) ==
    IF IsSome(node) THEN Some(<<node_key, Unwrap(node)>>) ELSE None
IntoInternalNodeWith(node_key, children) ==
    IF IsSome(children) THEN InternalNodeNew(node_key, new_impl(Unwrap(children), TRUE))
    ELSE None
into_internal_node(info, version) ==
    IntoInternalNodeWith(info.node_key, IntoChildrenFrom(info.children, version, 0))

----------------------------------------------------------------------------
(* restore.rs: JellyfishMerkleRestore.  A restorer is a record; status "panic" *)
(* records that an assertion, expect or panic! was reached.                    *)

\* Three fields are history: node_keys, the node keys the restorer has inserted into
\* frozen_nodes, in that order; emitted, the keys whose leaf nodes the restorer has put into
\* frozen_nodes, in that order; pops, what freeze_internal_nodes has popped: the partial
\* node, the rightmost child of the partial node above it before and after the pop (None
\* when the root was popped), and whether the round got to its end without a panic.
Restorer(version, partial_nodes, previous_leaf) ==
    [status |-> "open", version |-> version, partial_nodes |-> partial_nodes,
     frozen_nodes |-> EmptyBatch, previous_leaf |-> previous_leaf, num_keys_received |-> 0,
     node_keys |-> <<>>, emitted |-> <<>>, pops |-> <<>>]
Panic(r) == [r EXCEPT !.status = "panic"]

LastOf(s) == s[Len(s)]
SetLast(s, x) == [s EXCEPT ![Len(s)] = x]

\* a variant of the step below that puts the leaf under the node key of its parent
FreezeRightmostLeafAtParent(r, last_node, rightmost_child_index) ==
    IF rightmost_child_index < 0 THEN Panic(r)
    ELSE IF Unwrap(ChildAt(last_node.children, rightmost_child_index)).t = "Leaf"
    THEN [r EXCEPT !.frozen_nodes =
            insert_node(@, last_node.node_key,
                        Unwrap(ChildAt(last_node.children, rightmost_child_index)).node),
                   !.node_keys = Append(@, last_node.node_key),
                   !.emitted =
            Append(@, Unwrap(ChildAt(last_node.children,
                                     rightmost_child_index)).node.key_hash)]
    ELSE Panic(r)
\* the `match last_node.children[rightmost_child_index]` of freeze_previous_leaf
FreezeRightmostLeaf(r, last_node, rightmost_child_index) ==
    IF rightmost_child_index < 0 THEN Panic(r)
    ELSE IF Unwrap(ChildAt(last_node.children, rightmost_child_index)).t = "Leaf"
    THEN [r EXCEPT !.frozen_nodes =
            insert_node(@, gen_child_node_key(last_node.node_key, r.version,
                                              rightmost_child_index),
                        Unwrap(ChildAt(last_node.children, rightmost_child_index)).node),
                   !.node_keys =
            Append(@, gen_child_node_key(last_node.node_key, r.version,
                                         rightmost_child_index)),
                   !.emitted =
            Append(@, Unwrap(ChildAt(last_node.children,
                                     rightmost_child_index)).node.key_hash)]
    ELSE Panic(r)

\* a variant of the function below that leaves the rightmost leaf where it is
freeze_previous_leaf_skipped(r) == r
\* JellyfishMerkleRestore::freeze_previous_leaf
freeze_previous_leaf(r) ==
    IF r.status = "panic" \/ r.num_keys_received = 0 THEN r
    ELSE IF r.partial_nodes = <<>> THEN Panic(r)
    ELSE FreezeRightmostLeaf(r, LastOf(r.partial_nodes),
                             rposition(LastOf(r.partial_nodes).children))

\* the `if let Some(parent_node) = self.partial_nodes.last_mut()` block of
\* freeze_internal_nodes: the parent learns the hash and the leaf count of the frozen node
UpdateParent(r, parent_node, rightmost_child_index, node_hash, node_leaf_count) ==
    IF rightmost_child_index < 0 THEN Panic(r)
    ELSE IF Unwrap(ChildAt(parent_node.children, rightmost_child_index)).t # "Internal"
    THEN Panic(r)
    ELSE IF IsSome(Unwrap(ChildAt(parent_node.children, rightmost_child_index)).hash)
            \/ Unwrap(ChildAt(parent_node.children, rightmost_child_index)).leaf_count # 0
    THEN Panic(r)
    ELSE [r EXCEPT !.partial_nodes =
            SetLast(@, set_child(parent_node, rightmost_child_index,
                                 ChildInfoInternal(Some(node_hash), node_leaf_count)))]

\* one round of the `while` of freeze_internal_nodes, r being the restorer after the pop
FreezePopped(r, node_key, internal_node) ==
    IF r.partial_nodes = <<>>
    THEN [r EXCEPT !.frozen_nodes = insert_node(@, node_key, internal_node),
                   !.node_keys = Append(@, node_key)]
    ELSE UpdateParent([r EXCEPT !.frozen_nodes = insert_node(@, node_key, internal_node),
                                !.node_keys = Append(@, node_key)],
                      LastOf(r.partial_nodes), rposition(LastOf(r.partial_nodes).children),
                      InternalNodeHash(internal_node), KnownLeafCount(internal_node))
FreezeConverted(r, conv) ==
    IF IsSome(conv) THEN FreezePopped(r, Unwrap(conv)[1], Unwrap(conv)[2]) ELSE Panic(r)

\* the rightmost child of the deepest partial node; None when there is no partial node
RightmostChild(partial_nodes) ==
    IF partial_nodes = <<>> THEN None
    ELSE IF rposition(LastOf(partial_nodes).children) < 0 THEN None
    ELSE ChildAt(LastOf(partial_nodes).children, rposition(LastOf(partial_nodes).children))
\* history: one round of the `while` of freeze_internal_nodes is recorded in pops
PopRecorded(before, after) ==
    [after EXCEPT !.pops =
        Append(@, [node |-> LastOf(before.partial_nodes),
                   has_parent |-> Len(before.partial_nodes) > 1,
                   patched |-> after.status # "panic",
                   parent_before |-> RightmostChild(Prefix(before.partial_nodes,
                                                           Len(before.partial_nodes) - 1)),
                   parent_after |-> RightmostChild(after.partial_nodes)])]

\* JellyfishMerkleRestore::freeze_internal_nodes
RECURSIVE freeze_internal_nodes(_, _)
freeze_internal_nodes(r, num_remaining_nodes) ==
    IF r.status = "panic" \/ Len(r.partial_nodes) <= num_remaining_nodes THEN r
    ELSE freeze_internal_nodes(
            PopRecorded(r,
                FreezeConverted(
                    [r EXCEPT !.partial_nodes = Prefix(@, Len(@) - 1)],
                    into_internal_node(LastOf(r.partial_nodes), r.version))),
            num_remaining_nodes)

\* JellyfishMerkleRestore::freeze
freeze(r, num_remaining_partial_nodes) ==
    freeze_internal_nodes(freeze_previous_leaf(r), num_remaining_partial_nodes)

\* the `for _ in num_existing_partial_nodes..common_prefix_len` loop of insert_at_leaf:
\* one partial node per further common nibble, each with a single unknown internal child
RECURSIVE PushCommonPrefixNodes(_, _, _, _)
PushCommonPrefixNodes(r, new_key, pos, common_prefix_len) ==
    IF pos >= common_prefix_len THEN r
    ELSE PushCommonPrefixNodes(
            [r EXCEPT !.partial_nodes =
                Append(@, set_child(InternalInfoNewEmpty(NodeKeyNew(r.version,
                                                                    Prefix(new_key, pos))),
                                    get_nibble(new_key, pos),
                                    ChildInfoInternal(None, 0)))],
            new_key, pos + 1, common_prefix_len)

\* the end of insert_at_leaf: after the freeze, the new leaf goes to the right of the
\* existing one in the bottom partial node
SetNewLeaf(r, new_key, value_hash, new_child_index, existing_child_index) ==
    IF r.status = "panic" THEN r
    ELSE IF ~(new_child_index > existing_child_index) THEN Panic(r)
    ELSE [r EXCEPT !.partial_nodes =
            SetLast(@, set_child(LastOf(@), new_child_index,
                                 ChildInfoLeaf(LeafNodeNewHashed(new_key, value_hash))))]

\* the bottom partial node of insert_at_leaf, holding the existing leaf, is pushed and
\* `self.freeze(self.partial_nodes.len())` runs
PushBottomAndFreeze(r, existing_leaf, new_key, visited, existing_child_index) ==
    freeze([r EXCEPT !.partial_nodes =
                Append(@, set_child(InternalInfoNewEmpty(NodeKeyNew(r.version,
                                                                   Prefix(new_key, visited))),
                                    existing_child_index, ChildInfoLeaf(existing_leaf)))],
           Len(r.partial_nodes) + 1)

InsertAtLeafWith(r, child_index, existing_leaf, new_key, value_hash, common_prefix_len) ==
    IF common_prefix_len >= ROOT_NIBBLE_HEIGHT THEN Panic(r)
    ELSE SetNewLeaf(
            PushBottomAndFreeze(
                PushCommonPrefixNodes(
                    [r EXCEPT !.partial_nodes =
                        SetLast(@, set_child(LastOf(@), child_index,
                                             ChildInfoInternal(None, 0)))],
                    new_key, Len(r.partial_nodes), common_prefix_len),
                existing_leaf, new_key, Max(Len(r.partial_nodes), common_prefix_len),
                get_nibble(existing_leaf.key_hash, common_prefix_len)),
            new_key, value_hash, get_nibble(new_key, common_prefix_len),
            get_nibble(existing_leaf.key_hash, common_prefix_len))

\* JellyfishMerkleRestore::insert_at_leaf (remaining_nibbles has visited the first
\* num_existing_partial_nodes nibbles of new_key); two equal keys have no next nibble
insert_at_leaf(r, child_index, existing_leaf, new_key, value_hash) ==
    InsertAtLeafWith(r, child_index, existing_leaf, new_key, value_hash,
                     common_prefix_nibbles_len(existing_leaf.key_hash, new_key))

\* the `None` arm of add_one, after `self.freeze(i + 1)`
SetLeafChild(r, i, child_index, new_key, value_hash) ==
    IF r.status = "panic" THEN r
    ELSE [r EXCEPT !.partial_nodes[i + 1] =
            set_child(@, child_index, ChildInfoLeaf(LeafNodeNewHashed(new_key, value_hash)))]

\* JellyfishMerkleRestore::add_one, from nibble i on
RECURSIVE AddOneFrom(_, _, _, _)
AddOneFrom(r, new_key, value_hash, i) ==
    IF i >= ROOT_NIBBLE_HEIGHT THEN r
    ELSE IF ~(i < Len(r.partial_nodes)) THEN Panic(r)
    ELSE LET child_index == get_nibble(new_key, i)
             slot == ChildAt(r.partial_nodes[i + 1].children, child_index)
         IN IF IsSome(slot)
            THEN IF Unwrap(slot).t = "Leaf"
                 THEN IF i # Len(r.partial_nodes) - 1 THEN Panic(r)
                      ELSE insert_at_leaf(r, child_index, Unwrap(slot).node, new_key,
                                          value_hash)
                 ELSE AddOneFrom(r, new_key, value_hash, i + 1)
            ELSE SetLeafChild(freeze(r, i + 1), i, child_index, new_key, value_hash)
add_one(r, new_key, value_hash) == AddOneFrom(r, new_key, value_hash, 0)

\* a variant of the combination step below that never passes a single leaf up
CombineHalvesUncollapsed(l, r) ==
    IF ~IsSome(l) \/ ~IsSome(r) THEN None
    ELSE IF Unwrap(l)[1] = SPARSE_MERKLE_PLACEHOLDER_HASH
            /\ Unwrap(r)[1] = SPARSE_MERKLE_PLACEHOLDER_HASH
    THEN Some(<<SPARSE_MERKLE_PLACEHOLDER_HASH, TRUE>>)
    ELSE Some(<<SparseMerkleInternalNodeHash(Unwrap(l)[1], Unwrap(r)[1]), FALSE>>)
\* the combination step of compute_left_sibling_impl: l and r are the <<hash, is_leaf>>
\* of the two halves, None where `hash.expect("The hash must be known.")` panicked
CombineHalves(l, r) ==
    IF ~IsSome(l) \/ ~IsSome(r) THEN None
    ELSE IF Unwrap(l)[1] = SPARSE_MERKLE_PLACEHOLDER_HASH /\ Unwrap(r)[2]
    THEN Some(<<Unwrap(r)[1], TRUE>>)
    ELSE IF Unwrap(l)[2] /\ Unwrap(r)[1] = SPARSE_MERKLE_PLACEHOLDER_HASH
    THEN Some(<<Unwrap(l)[1], TRUE>>)
    ELSE Some(<<SparseMerkleInternalNodeHash(Unwrap(l)[1], Unwrap(r)[1]), FALSE>>)

\* JellyfishMerkleRestore::compute_left_sibling_impl over children[start .. start + width):
\* Some(<<hash, is_leaf>>), or None on the panic
RECURSIVE compute_left_sibling_impl(_, _, _)
compute_left_sibling_impl(children, start, num_children) ==
    IF num_children = 1
    THEN LET slot == ChildAt(children, start)
         IN IF ~IsSome(slot) THEN Some(<<SPARSE_MERKLE_PLACEHOLDER_HASH, TRUE>>)
            ELSE IF Unwrap(slot).t = "Leaf" THEN Some(<<LeafNodeHash(Unwrap(slot).node), TRUE>>)
            ELSE IF IsSome(Unwrap(slot).hash) THEN Some(<<Unwrap(Unwrap(slot).hash), FALSE>>)
            ELSE None
    ELSE CombineHalves(
            compute_left_sibling_impl(children, start, num_children \div 2),
            compute_left_sibling_impl(children, start + num_children \div 2,
                                      num_children \div 2))

\* JellyfishMerkleRestore::compute_left_sibling: Some(<<hash, is_leaf>>) of which the caller
\* takes the hash, or None on a panic
compute_left_sibling(partial_node, n, height) ==
    compute_left_sibling_impl(partial_node.children,
                              get_child_and_sibling_half_start(n, height)[2], Pow2(height))

\* the first loop of verify: Some(<<left_siblings, num_visited_right_siblings>>), top down
RECURSIVE LeftSiblingsFrom(_, _, _, _, _)
PushLeftSibling(r, previous_key, i, left_siblings, num_visited_right_siblings, sibling) ==
    IF ~IsSome(sibling) THEN None
    ELSE LeftSiblingsFrom(r, previous_key, i + 1, Append(left_siblings, Unwrap(sibling)[1]),
                          num_visited_right_siblings)
LeftSiblingsFrom(r, previous_key, i, left_siblings, num_visited_right_siblings) ==
    IF i = NumBits THEN Some(<<left_siblings, num_visited_right_siblings>>)
    ELSE IF KeyBit(previous_key, i) = 1
    THEN PushLeftSibling(r, previous_key, i, left_siblings, num_visited_right_siblings,
            IF i >= Len(r.partial_nodes) * 4
            THEN Some(<<SPARSE_MERKLE_PLACEHOLDER_HASH, TRUE>>)
            ELSE compute_left_sibling(r.partial_nodes[(i \div 4) + 1],
                                      get_nibble(previous_key, i \div 4), 3 - (i % 4)))
    ELSE LeftSiblingsFrom(r, previous_key, i + 1, left_siblings,
                          num_visited_right_siblings + 1)

\* the second loop of verify (bits in reverse): drop the placeholder left siblings below the
\* leaf; None when `left_siblings.last().expect("This sibling must exist.")` panics
RECURSIVE TrimLeftSiblings(_, _, _, _, _)
TrimLeftSiblings(previous_key, i, left_siblings, num_visited_right_siblings, num_right) ==
    IF i < 0 THEN Some(left_siblings)
    ELSE IF KeyBit(previous_key, i) = 1
    THEN IF left_siblings = <<>> THEN None
         ELSE IF LastOf(left_siblings) = SPARSE_MERKLE_PLACEHOLDER_HASH
         THEN TrimLeftSiblings(previous_key, i - 1,
                               Prefix(left_siblings, Len(left_siblings) - 1),
                               num_visited_right_siblings, num_right)
         ELSE Some(left_siblings)
    ELSE IF num_visited_right_siblings > num_right
    THEN TrimLeftSiblings(previous_key, i - 1, left_siblings,
                          num_visited_right_siblings - 1, num_right)
    ELSE Some(left_siblings)

\* a variant of the step below that leaves the list as the loops built it
LeftSiblingsAsBuilt(left_siblings) == left_siblings
\* `left_siblings.reverse()`: the list verify hands to the range proof
LeftSiblingsHanded(left_siblings) == Reverse(left_siblings)
\* the end of verify: the trimmed left siblings are reversed and the range proof checked
VerifyTrimmed(previous_leaf, expected, proof, trimmed) ==
    IF ~IsSome(trimmed) THEN "panic"
    ELSE IF ProofVerify(proof, expected, previous_leaf.key_hash, previous_leaf.value_hash,
                        LeftSiblingsHanded(Unwrap(trimmed)))
    THEN "Ok" ELSE "Err"

\* verify after its first loop: the ensure!, then the trimming
VerifyVisited(previous_leaf, expected, proof, first) ==
    IF ~IsSome(first) THEN "panic"
    ELSE IF ~(Unwrap(first)[2] >= Len(proof)) THEN "Err"
    ELSE VerifyTrimmed(previous_leaf, expected, proof,
            TrimLeftSiblings(previous_leaf.key_hash, NumBits - 1, Unwrap(first)[1],
                             Unwrap(first)[2], Len(proof)))

\* JellyfishMerkleRestore::verify: "Ok", "Err" or "panic"
verify(r, expected, proof) ==
    IF ~IsSome(r.previous_leaf) THEN "panic"
    ELSE VerifyVisited(Unwrap(r.previous_leaf), expected, proof,
                       LeftSiblingsFrom(r, Unwrap(r.previous_leaf).key_hash, 0, <<>>, 0))

\* a variant of the order test below that lets a key equal to the previous one through
KeyBelowPrevious(r, key) ==
    IsSome(r.previous_leaf) /\ KeyLess(key, Unwrap(r.previous_leaf).key_hash)
\* the `if key <= prev_leaf.key_hash()` test of add_chunk_impl: TRUE when the key is
\* rejected with OutOfOrder
KeyOutOfOrder(r, key) ==
    IsSome(r.previous_leaf) /\ KeyLeq(key, Unwrap(r.previous_leaf).key_hash)

\* the `for (key, value) in chunk` loop of add_chunk_impl, from the i-th pair on:
\* <<restorer, "Ok" | "OutOfOrder" | "panic">>
RECURSIVE AddChunkLoop(_, _, _)
AddedOne(r, chunk, i) ==
    IF r.status = "panic" THEN <<r, "panic">>
    ELSE AddChunkLoop(
            [r EXCEPT !.previous_leaf =
                        Some(LeafNodeNewHashed(chunk[i][1], ValueHashWith(chunk[i][2]))),
                      !.num_keys_received = @ + 1],
            chunk, i + 1)
AddChunkLoop(r, chunk, i) ==
    IF i > Len(chunk) THEN <<r, "Ok">>
    ELSE IF KeyOutOfOrder(r, chunk[i][1])
    THEN <<r, "OutOfOrder">>
    ELSE AddedOne(
            add_one([r EXCEPT !.frozen_nodes =
                        insert_value(@, r.version, chunk[i][1], chunk[i][2])],
                    chunk[i][1], ValueHashWith(chunk[i][2])),
            chunk, i)

\* a variant of the step below that counts the received keys anew after each chunk
VerifiedRecounting(r, st, verified, accepts) ==
    IF verified = "panic" THEN [rs |-> Panic(r), store |-> st, result |-> "panic"]
    ELSE IF verified = "Err" THEN [rs |-> r, store |-> st, result |-> "VerificationFailed"]
    ELSE IF ~IsSome(write_node_batch(st, r.frozen_nodes, accepts))
    THEN [rs |-> r, store |-> st, result |-> "WriteFailed"]
    ELSE [rs |-> [r EXCEPT !.frozen_nodes = EmptyBatch, !.num_keys_received = 0],
          store |-> Unwrap(write_node_batch(st, r.frozen_nodes, accepts)), result |-> "Ok"]
\* a variant of the step below that writes the frozen nodes and keeps them
VerifiedUncleared(r, st, verified, accepts) ==
    IF verified = "panic" THEN [rs |-> Panic(r), store |-> st, result |-> "panic"]
    ELSE IF verified = "Err" THEN [rs |-> r, store |-> st, result |-> "VerificationFailed"]
    ELSE IF ~IsSome(write_node_batch(st, r.frozen_nodes, accepts))
    THEN [rs |-> r, store |-> st, result |-> "WriteFailed"]
    ELSE [rs |-> r, store |-> Unwrap(write_node_batch(st, r.frozen_nodes, accepts)),
          result |-> "Ok"]
\* a variant of the step below that writes the frozen nodes before looking at the verdict
VerifiedAfterWrite(r, st, verified, accepts) ==
    IF verified = "panic" THEN [rs |-> Panic(r), store |-> st, result |-> "panic"]
    ELSE IF ~IsSome(write_node_batch(st, r.frozen_nodes, accepts))
    THEN [rs |-> r, store |-> st, result |-> "WriteFailed"]
    ELSE [rs |-> [r EXCEPT !.frozen_nodes = EmptyBatch],
          store |-> Unwrap(write_node_batch(st, r.frozen_nodes, accepts)),
          result |-> IF verified = "Err" THEN "VerificationFailed" ELSE "Ok"]
\* add_chunk_impl after verify: the frozen nodes are written, and cleared once the write
\* has succeeded; a write that fails returns WriteFailed before the clear
Verified(r, st, verified, accepts) ==
    IF verified = "panic" THEN [rs |-> Panic(r), store |-> st, result |-> "panic"]
    ELSE IF verified = "Err" THEN [rs |-> r, store |-> st, result |-> "VerificationFailed"]
    ELSE IF ~IsSome(write_node_batch(st, r.frozen_nodes, accepts))
    THEN [rs |-> r, store |-> st, result |-> "WriteFailed"]
    ELSE [rs |-> [r EXCEPT !.frozen_nodes = EmptyBatch],
          store |-> Unwrap(write_node_batch(st, r.frozen_nodes, accepts)), result |-> "Ok"]

\* add_chunk_impl after its loop
Looped(looped, st, expected, proof, accepts) ==
    IF looped[2] # "Ok" THEN [rs |-> looped[1], store |-> st, result |-> looped[2]]
    ELSE Verified(looped[1], st, verify(looped[1], expected, proof), accepts)

\* JellyfishMerkleRestore::add_chunk_impl: the restorer and the store after the call, and
\* "Ok", "EmptyChunk", "OutOfOrder", "VerificationFailed", "WriteFailed" or "panic";
\* accepts tells whether the store accepts a write
add_chunk_impl(r, st, expected, chunk, proof, accepts) ==
    IF chunk = <<>> THEN [rs |-> r, store |-> st, result |-> "EmptyChunk"]
    ELSE Looped(AddChunkLoop(r, chunk, 1), st, expected, proof, accepts)

\* the children of partial_nodes[0] counted by finish_impl: <<num_children, leaf>>
RECURSIVE CountChildrenFrom(_, _, _, _)
CountChildrenFrom(children, i, num_children, leaf) ==
    IF i = 16 THEN <<num_children, leaf>>
    ELSE LET slot == ChildAt(children, i)
         IN IF ~IsSome(slot) THEN CountChildrenFrom(children, i + 1, num_children, leaf)
            ELSE CountChildrenFrom(children, i + 1, num_children + 1,
                    IF Unwrap(slot).t = "Leaf" THEN Some(Unwrap(slot).node) ELSE leaf)

\* finish_impl after `self.freeze(0)`: the result of the write is the result of finish
Frozen(r, st, accepts) ==
    IF r.status = "panic" THEN [rs |-> r, store |-> st, result |-> "panic"]
    ELSE IF ~IsSome(write_node_batch(st, r.frozen_nodes, accepts))
    THEN [rs |-> [r EXCEPT !.status = "finished"], store |-> st, result |-> "WriteError"]
    ELSE [rs |-> [r EXCEPT !.status = "finished"],
          store |-> Unwrap(write_node_batch(st, r.frozen_nodes, accepts)), result |-> "Ok"]

\* finish_impl after counting the children of the only partial node
\* the single-leaf case of finish_impl once the leaf is in frozen_nodes: `write_node_batch(..)?`
RootLeafStaged(r, st, accepts) ==
    IF ~IsSome(write_node_batch(st, r.frozen_nodes, accepts))
    THEN [rs |-> r, store |-> st, result |-> "WriteError"]
    ELSE [rs |-> r, store |-> Unwrap(write_node_batch(st, r.frozen_nodes, accepts)),
          result |-> "Ok"]
Counted(r, st, counted, accepts) ==
    IF counted[1] = 1 /\ IsSome(counted[2])
    THEN IF ~BatchIsEmpty(r.frozen_nodes)
         THEN [rs |-> Panic(r), store |-> st, result |-> "panic"]
         ELSE RootLeafStaged([r EXCEPT !.status = "finished",
                                       !.frozen_nodes =
                                            insert_node(@, new_empty_path(r.version),
                                                        Unwrap(counted[2])),
                                       !.node_keys = Append(@, new_empty_path(r.version)),
                                       !.emitted = Append(@, Unwrap(counted[2]).key_hash)],
                             st, accepts)
    ELSE Frozen(freeze(r, 0), st, accepts)

\* JellyfishMerkleRestore::finish_impl (consumes the restorer); "Ok", "WriteError" (the Err of
\* the store's write) or "panic"; accepts tells whether the store accepts a write
finish_impl(r, st, accepts) ==
    Counted(r, st, IF Len(r.partial_nodes) = 1
                   THEN CountChildrenFrom(r.partial_nodes[1].children, 0, 0, None)
                   ELSE <<0, None>>,
            accepts)

\* the `while store.get_node_option(&node_key)?.is_some()` loop of recover_partial_nodes:
\* Some(key of the lowest partial node); None when gen_parent_node_key panics at the root
RECURSIVE LowestPartialNodeKey(_, _)
LowestPartialNodeKey(st, node_key) ==
    IF ~IsSome(get_node_option(st, node_key)) THEN Some(node_key)
    ELSE IF node_key.nibble_path = <<>> THEN None
    ELSE LowestPartialNodeKey(st, gen_parent_node_key(node_key))

\* the ChildInfo recover_partial_nodes makes of a stored node
RecoveredChildInfo(node) ==
    IF node.type = "Internal"
    THEN ChildInfoInternal(Some(InternalNodeHash(node)), KnownLeafCount(node))
    ELSE ChildInfoLeaf(node)

\* the `for i in 0..previous_child_index.unwrap_or(16)` loop: the 16 child slots of the
\* partial node at node_key read back from storage; None when a Null node is stored
RECURSIVE RecoverChildrenFrom(_, _, _, _, _)
RecoverChildrenFrom(st, version, node_key, i, limit) ==
    IF i = 16 THEN Some(<<>>)
    ELSE LET rest == RecoverChildrenFrom(st, version, node_key, i + 1, limit)
             found == get_node_option(st, gen_child_node_key(node_key, version, i))
         IN IF ~IsSome(rest) THEN None
            ELSE IF i >= limit \/ ~IsSome(found) THEN Some(<<None>> \o Unwrap(rest))
            ELSE IF Unwrap(found).type = "Null" THEN None
            ELSE Some(<<Some(RecoveredChildInfo(Unwrap(found)))>> \o Unwrap(rest))

\* the `loop` of recover_partial_nodes, from the lowest partial node up to the root:
\* Some(partial nodes, bottom first), None on the bail!
RECURSIVE RecoverLoop(_, _, _, _, _)
RecoverScanned(st, version, node_key, previous_child_index, partial_nodes, children) ==
    IF ~IsSome(children) THEN None
    ELSE LET scanned == [node_key |-> node_key, children |-> Unwrap(children)]
             internal_info ==
                IF IsSome(previous_child_index)
                THEN set_child(scanned, Unwrap(previous_child_index),
                               ChildInfoInternal(None, 0))
                ELSE scanned
         IN IF node_key.nibble_path = <<>> THEN Some(Append(partial_nodes, internal_info))
            ELSE RecoverLoop(st, version, gen_parent_node_key(node_key),
                             Some(LastOf(node_key.nibble_path)),
                             Append(partial_nodes, internal_info))
RecoverLoop(st, version, node_key, previous_child_index, partial_nodes) ==
    RecoverScanned(st, version, node_key, previous_child_index, partial_nodes,
        RecoverChildrenFrom(st, version, node_key, 0,
            IF IsSome(previous_child_index) THEN Unwrap(previous_child_index) ELSE 16))

\* a variant of the step below that leaves the partial nodes in the order the loop found them
RecoverFromBottomUp(st, version, lowest) ==
    IF ~IsSome(lowest) THEN <<"panic">>
    ELSE LET recovered == RecoverLoop(st, version, Unwrap(lowest), None, <<>>)
         IN IF ~IsSome(recovered) THEN <<"Err">>
            ELSE <<"Ok", Unwrap(recovered)>>
\* recover_partial_nodes once the lowest partial node is known
RecoverFrom(st, version, lowest) ==
    IF ~IsSome(lowest) THEN <<"panic">>
    ELSE LET recovered == RecoverLoop(st, version, Unwrap(lowest), None, <<>>)
         IN IF ~IsSome(recovered) THEN <<"Err">>
            ELSE <<"Ok", Reverse(Unwrap(recovered))>>

\* a variant of the function below that takes a rightmost leaf at the root for no leaf
recover_partial_nodes_at_root(st, version, rightmost_leaf_node_key) ==
    IF rightmost_leaf_node_key.nibble_path = <<>>
    THEN <<"Ok", <<InternalInfoNewEmpty(new_empty_path(version))>>>>
    ELSE RecoverFrom(st, version,
            LowestPartialNodeKey(st, gen_parent_node_key(rightmost_leaf_node_key)))
\* JellyfishMerkleRestore::recover_partial_nodes: <<"Ok", partial_nodes>>, <<"Err">>, <<"panic">>
recover_partial_nodes(st, version, rightmost_leaf_node_key) ==
    IF rightmost_leaf_node_key.nibble_path = <<>> THEN <<"Err">>
    ELSE RecoverFrom(st, version,
            LowestPartialNodeKey(st, gen_parent_node_key(rightmost_leaf_node_key)))

\* a variant of the step below that forgets the rightmost leaf
RecoveredWithoutLeaf(version, leaf_node, recovered) ==
    IF recovered[1] = "Ok" THEN Restorer(version, recovered[2], None)
    ELSE IF recovered[1] = "Err" THEN [status |-> "err"] ELSE [status |-> "panic"]
\* JellyfishMerkleRestore::new once the rightmost leaf has been recovered
Recovered(version, leaf_node, recovered) ==
    IF recovered[1] = "Ok" THEN Restorer(version, recovered[2], Some(leaf_node))
    ELSE IF recovered[1] = "Err" THEN [status |-> "err"] ELSE [status |-> "panic"]

\* JellyfishMerkleRestore::new once get_rightmost_leaf has returned Ok(rightmost)
RestoreFrom(st, version, rightmost) ==
    IF IsSome(rightmost)
    THEN Recovered(version, Unwrap(rightmost)[2],
                   recover_partial_nodes(st, version, Unwrap(rightmost)[1]))
    ELSE Restorer(version, <<InternalInfoNewEmpty(new_empty_path(version))>>, None)
\* JellyfishMerkleRestore::new: an open restorer, or [status |-> "err"] / [status |-> "panic"];
\* reads tells whether the reads of the store succeed: `get_rightmost_leaf()?` is the first
\* read, and the Err of a read is the Err of new
JellyfishMerkleRestoreNew(st, version, reads) ==
    IF ~reads THEN [status |-> "err"]
    ELSE RestoreFrom(st, version, get_rightmost_leaf(st))
\* JellyfishMerkleRestore::new_overwrite: a restorer that starts from the empty root whatever
\* the store holds; the store is not read
new_overwrite(st, version) ==
    Restorer(version, <<InternalInfoNewEmpty(new_empty_path(version))>>, None)

----------------------------------------------------------------------------
(* Scenarios *)

\* the value stored under key k in the scenarios
SampleValue(k) == 1 + (KeyNum(k) % 2)

KeySets == {K \in SUBSET Keys : Cardinality(K) <= MaxKeys}

\* the ascending sequence of the keys of K
RECURSIVE SortedKeys(_)
SortedKeys(K) ==
    IF K = {} THEN <<>>
    ELSE LET m == CHOOSE a \in K : \A b \in K : KeyLeq(a, b)
         IN <<m>> \o SortedKeys(K \ {m})

\* helper::plus_one (the next key hash), for keys below 0xFF..FF
RECURSIVE plus_one(_)
plus_one(k) ==
    LET n == Len(k)
    IN IF k[n] = 15 THEN Append(plus_one(Prefix(k, n - 1)), 0)
       ELSE [k EXCEPT ![n] = k[n] + 1]

ZeroKey == CHOOSE k \in NibbleSeqs({0}, ROOT_NIBBLE_HEIGHT) : TRUE
MaxKey == CHOOSE k \in NibbleSeqs({15}, ROOT_NIBBLE_HEIGHT) : TRUE

NoRestore == [status |-> "none"]
NoCall == [op |-> "none", result |-> "none", unordered |-> FALSE, proof |-> <<>>]
\* restarts and errors count the restarts of the process and the calls that returned an
\* error; aligned: every chunk so far was a genuine chunk that followed the previous leaf of
\* the restorer it was given to; from_fed: every chunk so far was a genuine chunk that
\* followed the last acknowledged pair; finished: finish has been called; interrupted: every
\* restart so far came after some add_chunk had returned Ok and before finish was called;
\* chunks counts the add_chunk calls that returned Ok; overwriting: the restorer in use was made
\* by new_overwrite on a store that held a leaf node
NewRun == [restarts |-> 0, errors |-> 0, aligned |-> TRUE, from_fed |-> TRUE,
           finished |-> FALSE, interrupted |-> TRUE, chunks |-> 0, overwriting |-> FALSE]
NoSnapshot == [store |-> EmptyBatch, proofs |-> <<>>]
NoProbe == [op |-> <<"none">>]
NoOut == [ctor |-> <<"none">>, items |-> <<>>, ended |-> FALSE, failed |-> FALSE,
          after_end |-> 0, resumed |-> FALSE]

InitIterate ==
    /\ mode = "iterate"
    /\ \E K \in KeySets : \E ver \in [K -> 0..MaxVersion] :
          tree = [k \in K |-> [value |-> SampleValue(k), version |-> ver[k]]]
    /\ store = RefStore(tree, 0..MaxVersion)
    /\ it = NoIter
    /\ out = NoOut
    /\ stream = <<>> /\ expected_root_hash = <<>> /\ rs = NoRestore /\ fed = <<>>
    /\ last = NoCall /\ run = NewRun /\ snapshot = NoSnapshot
    /\ probe = NoProbe /\ readers = <<>>

\* the starting keys tried: zero, 0xFF..FF, every key of the universe and its successor
StartingKeys == {ZeroKey, MaxKey} \cup Keys \cup {plus_one(k) : k \in Keys}

Constructed(iter, ctor) ==
    /\ it' = iter
    /\ out' = [ctor |-> ctor, items |-> <<>>, ended |-> FALSE, failed |-> iter.status # "ok",
               after_end |-> 0, resumed |-> FALSE]

\* JellyfishMerkleIterator::new(reader, version, starting_key)
CallIteratorNew ==
    /\ mode = "iterate"
    /\ it.status = "none"
    /\ \E version \in 0..MaxVersion, starting_key \in StartingKeys :
          Constructed(IteratorNew(store, version, starting_key),
                      <<"new", version, starting_key>>)
    /\ UNCHANGED <<probe, readers, store, mode, tree, snapshot, stream, expected_root_hash, rs, fed, last, run>>

\* JellyfishMerkleIterator::new_by_index(reader, version, start_idx)
CallIteratorNewByIndex ==
    /\ mode = "iterate"
    /\ it.status = "none"
    /\ \E version \in 0..MaxVersion, start_idx \in 0..(MaxKeys + 1) :
          Constructed(IteratorNewByIndex(store, version, start_idx),
                      <<"new_by_index", version, start_idx>>)
    /\ UNCHANGED <<probe, readers, store, mode, tree, snapshot, stream, expected_root_hash, rs, fed, last, run>>

\* Iterator::next, called again and again, and up to MaxCallsAfterEnd times after it has
\* returned end; after_end counts those calls, and resumed records that one of them
\* returned something else than end
CallIteratorNext ==
    /\ it.status = "ok"
    /\ ~out.failed /\ ~out.resumed
    /\ Len(out.items) <= MaxKeys
    /\ out.after_end < MaxCallsAfterEnd
    /\ LET r == IteratorNext(store, it)
       IN /\ it' = r.it
          /\ out' = IF out.ended
                    THEN [out EXCEPT !.after_end = @ + 1, !.resumed = r.result[1] # "end"]
                    ELSE IF r.result[1] = "end" THEN [out EXCEPT !.ended = TRUE]
                    ELSE IF r.result[1] = "item"
                    THEN [out EXCEPT !.items = Append(@, <<r.result[2], r.result[3]>>)]
                    ELSE [out EXCEPT !.failed = TRUE]
    /\ UNCHANGED <<probe, readers, store, mode, tree, snapshot, stream, expected_root_hash, rs, fed, last, run>>

NextIterate == CallIteratorNew \/ CallIteratorNewByIndex \/ CallIteratorNext

SpecIterate == InitIterate /\ [][NextIterate]_vars

----------------------------------------------------------------------------
(* Iteration while reads fail: a next() call may find the reader failing a   *)
(* node read or the value reads.  A read that fails takes the Err arm of     *)
(* next(), as the read of an entry the store does not hold does, so the      *)
(* failing reader is the store without that entry.                           *)

InitFailing ==
    /\ mode = "failing"
    /\ \E K \in KeySets :
          tree = [k \in K |-> [value |-> SampleValue(k), version |-> MaxVersion]]
    /\ store = RefStore(tree, 0..MaxVersion)
    /\ it = NoIter
    /\ out = NoOut
    /\ stream = <<>> /\ expected_root_hash = <<>> /\ rs = NoRestore /\ fed = <<>>
    /\ last = NoCall /\ run = NewRun /\ snapshot = NoSnapshot
    /\ probe = NoProbe /\ readers = <<>>

\* the reader while the read of the node at node_key fails
FailingNodeRead(st, node_key) ==
    [st EXCEPT !.nodes = [nk \in DOMAIN st.nodes \ {node_key} |-> st.nodes[nk]]]
\* the reader while the reads of the values fail
FailingValueReads(st) == [st EXCEPT !.values = EmptyMap]
\* the readers a failing call may find: the read of one node fails, or the reads of the values
FailingReaders(st) ==
    {FailingNodeRead(st, node_key) : node_key \in DOMAIN st.nodes} \cup {FailingValueReads(st)}

\* JellyfishMerkleIterator::new(reader, MaxVersion, starting_key) while all reads succeed
CallIteratorNewReading ==
    /\ mode = "failing"
    /\ it.status = "none"
    /\ \E starting_key \in StartingKeys :
          Constructed(IteratorNew(store, MaxVersion, starting_key),
                      <<"new", MaxVersion, starting_key>>)
    /\ UNCHANGED <<probe, readers, store, mode, tree, snapshot, stream, expected_root_hash, rs, fed, last, run>>

\* Iterator::next while a read fails: the call returns the error
CallIteratorNextFailing ==
    /\ mode = "failing"
    /\ it.status = "ok"
    /\ ~out.ended
    /\ run.errors < MaxReadErrors
    /\ \E reader \in FailingReaders(store) :
          LET r == IteratorNext(reader, it)
          IN /\ r.result[1] = "err"
             /\ it' = r.it
    /\ run' = [run EXCEPT !.errors = @ + 1]
    /\ last' = [op |-> "next", result |-> "Err", unordered |-> FALSE, proof |-> <<>>]
    /\ UNCHANGED <<probe, readers, store, mode, tree, snapshot, stream, expected_root_hash, rs, fed, out>>

NextFailing == CallIteratorNewReading \/ CallIteratorNext \/ CallIteratorNextFailing

SpecFailing == InitFailing /\ [][NextFailing]_vars

----------------------------------------------------------------------------
(* Readers: several iterators over one store that nobody writes to; their   *)
(* next() calls interleave in any order                                     *)

\* the least key of the universe, and the key after it
LeastKey == CHOOSE k \in Keys : \A j \in Keys : KeyLeq(k, j)
MidKey == plus_one(LeastKey)
GreatestKey == CHOOSE k \in Keys : \A j \in Keys : KeyLeq(j, k)
\* the key sets of the trees read: those that hold the least and the greatest key (which of
\* the keys a version of the tree holds is up to the versions of the keys)
ReaderKeySets == {K \in KeySets : LeastKey \in K /\ GreatestKey \in K}
\* how a reader constructs its iterator
ReaderCtors ==
    {<<"new", version, starting_key>> : version \in 0..MaxVersion,
                                        starting_key \in {ZeroKey, MidKey}}
    \cup {<<"new_by_index", MaxVersion, 1>>}
\* the iterator a constructor call returns
ConstructedBy(st, ctor) ==
    IF ctor[1] = "new" THEN IteratorNew(st, ctor[2], ctor[3])
    ELSE IteratorNewByIndex(st, ctor[2], ctor[3])

\* a reader: its iterator (each JellyfishMerkleIterator owns its version, parent_stack and
\* done, and shares only the reader of the store), the constructor call that made it, the
\* items its next() calls have returned, whether a call has returned the end, and whether
\* one has returned an error or panicked.
\* amid (history): the reader has called next() while another reader was in the middle of
\* its run, with an item yielded and the end not yet returned
NoReader ==
    [it |-> NoIter, ctor |-> <<"none">>, items |-> <<>>, ended |-> FALSE, failed |-> FALSE,
     amid |-> FALSE]
Midway(reader) == reader.items # <<>> /\ ~reader.ended

InitReaders ==
    /\ mode = "readers"
    /\ \E K \in ReaderKeySets : \E ver \in [K -> 0..MaxVersion] :
          tree = [k \in K |-> [value |-> SampleValue(k), version |-> ver[k]]]
    /\ store = RefStore(tree, 0..MaxVersion)
    /\ readers = [i \in 1..MaxReaders |-> NoReader]
    /\ it = NoIter /\ out = NoOut
    /\ stream = <<>> /\ expected_root_hash = <<>> /\ rs = NoRestore /\ fed = <<>>
    /\ last = NoCall /\ run = NewRun /\ snapshot = NoSnapshot
    /\ probe = NoProbe

ReadersUnchanged ==
    UNCHANGED <<store, mode, tree, snapshot, stream, expected_root_hash, rs, fed, last, run,
                it, out, probe>>

\* reader i constructs its iterator
ReaderNew(i) ==
    /\ mode = "readers"
    /\ readers[i].it.status = "none"
    /\ \E ctor \in ReaderCtors :
          readers' = [readers EXCEPT ![i] = [it |-> ConstructedBy(store, ctor), ctor |-> ctor,
                                             items |-> <<>>, ended |-> FALSE,
                                             failed |-> FALSE, amid |-> FALSE]]
    /\ ReadersUnchanged

ReaderNextReturned(i, r) ==
    readers' = [readers EXCEPT
                   ![i] = [it |-> r.it, ctor |-> @.ctor,
                           items |-> IF r.result[1] = "item"
                                     THEN Append(@.items, <<r.result[2], r.result[3]>>)
                                     ELSE @.items,
                           ended |-> r.result[1] # "item",
                           failed |-> r.result[1] \in {"err", "panic"},
                           amid |-> @.amid \/ \E j \in 1..MaxReaders \ {i} :
                                                 Midway(readers[j])]]

\* reader i calls next() on its iterator
ReaderNext(i) ==
    /\ mode = "readers"
    /\ readers[i].it.status = "ok" /\ ~readers[i].ended
    /\ ReaderNextReturned(i, IteratorNext(store, readers[i].it))
    /\ ReadersUnchanged

NextReaders == \E i \in 1..MaxReaders : ReaderNew(i) \/ ReaderNext(i)

SpecReaders == InitReaders /\ [][NextReaders]_vars

----------------------------------------------------------------------------
(* Restore scenarios: a snapshot of a source tree is streamed into an empty store *)

\* the snapshot of the tree over K at version MaxVersion, to be restored at that version
InitSnapshot(K) ==
    /\ tree = [k \in K |-> [value |-> SampleValue(k), version |-> MaxVersion]]
    /\ stream = [i \in 1..Cardinality(K) |->
                    <<SortedKeys(K)[i], SampleValue(SortedKeys(K)[i])>>]
    /\ LET src == RefStore([k \in K |-> [value |-> SampleValue(k), version |-> MaxVersion]],
                           {MaxVersion})
       IN /\ snapshot = [store |-> src,
                         proofs |-> [i \in 1..Cardinality(K) |->
                                        get_range_proof(src, MaxVersion, SortedKeys(K)[i])]]
          /\ expected_root_hash = NodeHash(src.nodes[new_empty_path(MaxVersion)])
    /\ store = EmptyBatch
    /\ rs = NoRestore /\ fed = <<>> /\ last = NoCall /\ run = NewRun
    /\ it = NoIter /\ out = NoOut
    /\ probe = NoProbe /\ readers = <<>>

InitRestore == mode = "restore" /\ \E K \in KeySets : InitSnapshot(K)

\* position in the stream of key (0 when it is not a stream key)
StreamPos(key) ==
    LET at == {i \in 1..Len(stream) : stream[i][1] = key}
    IN IF at = {} THEN 0 ELSE CHOOSE i \in at : TRUE
\* position of the restorer's previous leaf
PrevPos == IF IsSome(rs.previous_leaf) THEN StreamPos(Unwrap(rs.previous_leaf).key_hash) ELSE 0
\* position of the last pair an add_chunk call has acknowledged with Ok
RECURSIVE AckPosFrom(_, _)
AckPosFrom(i, pos) ==
    IF i > Len(fed) THEN pos ELSE AckPosFrom(i + 1, Max(pos, StreamPos(fed[i][1])))
AckPos == AckPosFrom(1, 0)

\* the genuine chunks that continue the stream after position p: the next pairs up to some
\* position j, with the range proof of the key at j
GenuineFrom(p) ==
    {<<SubSeq(stream, p + 1, j), snapshot.proofs[j]>> : j \in (p + 1)..Len(stream)}

\* some key of the chunk is not greater than the key added just before it: the restorer's
\* previous leaf for the first pair, the pair before it in the chunk for the others
Unordered(chunk) ==
    \E i \in 1..Len(chunk) :
        IF i = 1
        THEN IsSome(rs.previous_leaf) /\ KeyLeq(chunk[1][1], Unwrap(rs.previous_leaf).key_hash)
        ELSE KeyLeq(chunk[i][1], chunk[i - 1][1])

\* one add_chunk call and what the histories record of it
AddChunkReturned(chunk, proof, r) ==
    /\ r.result = "Ok" \/ run.errors < MaxErrors
    /\ rs' = r.rs
    /\ store' = r.store
    /\ last' = [op |-> "add_chunk", result |-> r.result, unordered |-> Unordered(chunk),
                proof |-> proof]
    /\ fed' = IF r.result = "Ok" THEN fed \o chunk ELSE fed
    /\ run' = [run EXCEPT
                 !.errors = IF r.result = "Ok" THEN @ ELSE @ + 1,
                 !.chunks = IF r.result = "Ok" THEN @ + 1 ELSE @,
                 !.aligned = @ /\ <<chunk, proof>> \in GenuineFrom(PrevPos),
                 !.from_fed = @ /\ <<chunk, proof>> \in GenuineFrom(AckPos)]
\* add_chunk on a store that accepts the write
AddChunkStep(chunk, proof) ==
    AddChunkReturned(chunk, proof,
                     add_chunk_impl(rs, store, expected_root_hash, chunk, proof, TRUE))

\* JellyfishMerkleRestore::new on the store as it is
CallRestoreNew ==
    /\ rs.status = "none"
    /\ rs' = JellyfishMerkleRestoreNew(store, MaxVersion, TRUE)
    /\ last' = [op |-> "new", result |-> IF rs'.status = "open" THEN "Ok" ELSE rs'.status,
                unordered |-> FALSE, proof |-> <<>>]
    /\ UNCHANGED <<probe, readers, store, mode, tree, snapshot, stream, expected_root_hash, fed, run, it, out>>

\* JellyfishMerkleRestore::new_overwrite on the store as it is
CallRestoreNewOverwrite ==
    /\ rs.status = "none"
    /\ rs' = new_overwrite(store, MaxVersion)
    /\ last' = [op |-> "new_overwrite", result |-> "Ok", unordered |-> FALSE, proof |-> <<>>]
    /\ run' = [run EXCEPT !.overwriting = IsSome(get_rightmost_leaf(store))]
    /\ UNCHANGED <<probe, readers, store, mode, tree, snapshot, stream, expected_root_hash, fed, it, out>>

\* add_chunk with a genuine chunk: the pairs that follow the restorer's previous leaf, or
\* the pairs that follow the last acknowledged one
CallAddChunk ==
    /\ rs.status = "open"
    /\ \E c \in GenuineFrom(PrevPos) \cup GenuineFrom(AckPos) : AddChunkStep(c[1], c[2])
    /\ UNCHANGED <<probe, readers, mode, tree, snapshot, stream, expected_root_hash, it, out>>

\* finish (consumes the restorer)
FinishReturned(r) ==
    /\ rs' = r.rs
    /\ store' = r.store
    /\ last' = [op |-> "finish", result |-> r.result, unordered |-> FALSE, proof |-> <<>>]
    /\ run' = [run EXCEPT !.finished = TRUE]
CallFinish ==
    /\ rs.status = "open"
    /\ FinishReturned(finish_impl(rs, store, TRUE))
    /\ UNCHANGED <<probe, readers, mode, tree, snapshot, stream, expected_root_hash, fed, it, out>>

\* the process stops and the restorer is lost; the store keeps what was written
Crash ==
    /\ rs.status # "none"
    /\ run.restarts < MaxRestarts
    /\ it.status = "none"
    /\ rs' = NoRestore
    /\ last' = [op |-> "crash", result |-> "none", unordered |-> FALSE, proof |-> <<>>]
    /\ run' = [run EXCEPT !.restarts = @ + 1,
                          !.interrupted = @ /\ fed # <<>> /\ ~run.finished,
                          !.overwriting = FALSE]
    /\ UNCHANGED <<probe, readers, store, mode, tree, snapshot, stream, expected_root_hash, fed, it, out>>

\* JellyfishMerkleIterator::new(store, version, 0) over the store after finish
CallIteratorNewRestored ==
    /\ rs.status = "finished"
    /\ it.status = "none"
    /\ Constructed(IteratorNew(store, MaxVersion, ZeroKey), <<"new", MaxVersion, ZeroKey>>)
    /\ UNCHANGED <<probe, readers, store, mode, tree, snapshot, stream, expected_root_hash, rs, fed, last, run>>

NextRestore ==
    \/ CallRestoreNew
    \/ CallRestoreNewOverwrite
    \/ CallAddChunk
    \/ CallFinish
    \/ Crash
    \/ CallIteratorNewRestored
    \/ CallIteratorNext

SpecRestore == InitRestore /\ [][NextRestore]_vars

----------------------------------------------------------------------------
(* Restore with a faulty or hostile sender, or with a store that fails a read or *)
(* refuses a write                                                              *)

InitAdversary == mode = "adversary" /\ \E K \in KeySets : InitSnapshot(K)

OtherValue(v) == CHOOSE w \in Values : w # v
FlipValue(chunk, i) == [chunk EXCEPT ![i] = <<@[1], OtherValue(@[2])>>]
AllProofs == {snapshot.proofs[i] : i \in 1..Len(stream)} \cup {<<>>}

\* what a faulty sender may send instead of a genuine chunk c: a value changed, the first
\* pair left out, a pair sent again at the end, or the proof of another key
TamperedOf(c) ==
    {<<FlipValue(c[1], i), c[2]>> : i \in {1, Len(c[1])}}
    \cup {<<Tail(c[1]), c[2]>>}
    \cup {<<Append(c[1], c[1][i]), c[2]>> : i \in 1..Len(c[1])}
    \cup {<<c[1], p>> : p \in AllProofs \ {c[2]}}
\* and, whatever the position in the stream: nothing at all, or a pair sent before
Tampered ==
    UNION {TamperedOf(c) : c \in GenuineFrom(PrevPos)}
    \cup {<<<<>>, p>> : p \in AllProofs}
    \cup {<<<<stream[i]>>, snapshot.proofs[i]>> : i \in 1..PrevPos}

\* add_chunk with a chunk or a proof that is not the genuine one
CallAddBadChunk ==
    /\ rs.status = "open"
    /\ run.errors < MaxErrors
    /\ \E c \in Tampered : AddChunkStep(c[1], c[2])
    /\ UNCHANGED <<probe, readers, mode, tree, snapshot, stream, expected_root_hash, it, out>>

\* add_chunk with a genuine chunk while the store's write_node_batch returns Err
CallAddChunkRefused ==
    /\ rs.status = "open"
    /\ run.errors < MaxErrors
    /\ \E c \in GenuineFrom(PrevPos) :
          AddChunkReturned(c[1], c[2],
                           add_chunk_impl(rs, store, expected_root_hash, c[1], c[2], FALSE))
    /\ UNCHANGED <<probe, readers, mode, tree, snapshot, stream, expected_root_hash, it, out>>

\* JellyfishMerkleRestore::new while the reads of the store fail
CallRestoreNewUnreadable ==
    /\ rs.status = "none"
    /\ rs' = JellyfishMerkleRestoreNew(store, MaxVersion, FALSE)
    /\ last' = [op |-> "new", result |-> rs'.status, unordered |-> FALSE, proof |-> <<>>]
    /\ UNCHANGED <<probe, readers, store, mode, tree, snapshot, stream, expected_root_hash, fed, run, it, out>>

\* finish while the store's write_node_batch returns Err
CallFinishRefused ==
    /\ rs.status = "open"
    /\ FinishReturned(finish_impl(rs, store, FALSE))
    /\ UNCHANGED <<probe, readers, mode, tree, snapshot, stream, expected_root_hash, fed, it, out>>

NextAdversary ==
    \/ CallRestoreNew
    \/ CallRestoreNewUnreadable
    \/ CallAddChunk
    \/ CallAddBadChunk
    \/ CallAddChunkRefused
    \/ CallFinish
    \/ CallFinishRefused

SpecAdversary == InitAdversary /\ [][NextAdversary]_vars

----------------------------------------------------------------------------
(* Restore opened at any version: JellyfishMerkleRestore::new takes the version *)
(* from its caller, and the store may hold what a restore at another version   *)
(* has written                                                                  *)

InitVersions == mode = "versions" /\ \E K \in KeySets : InitSnapshot(K)

\* JellyfishMerkleRestore::new(store, version, expected_root_hash) on the store as it is
CallRestoreNewAt ==
    /\ rs.status = "none"
    /\ \E version \in 0..MaxVersion :
          /\ rs' = JellyfishMerkleRestoreNew(store, version, TRUE)
          /\ last' = [op |-> "new", result |-> IF rs'.status = "open" THEN "Ok" ELSE rs'.status,
                      unordered |-> FALSE, proof |-> <<>>]
    /\ UNCHANGED <<probe, readers, store, mode, tree, snapshot, stream, expected_root_hash, fed, run, it, out>>

NextVersions ==
    \/ CallRestoreNewAt
    \/ CallAddChunk
    \/ CallFinish
    \/ Crash

SpecVersions == InitVersions /\ [][NextVersions]_vars

----------------------------------------------------------------------------
(* node_type.rs: the bytes of a node.  A byte string is a sequence of      *)
(* U8(b), one byte, and H32(h), the 32 bytes of the hash h.                *)

U8(b) == [t |-> "u8", v |-> b]
H32(h) == [t |-> "h32", v |-> h]

\* enum NodeTag
NodeTagNull == 0
NodeTagInternalLegacy == 1
NodeTagLeaf == 2
NodeTagInternal == 3

\* A u64 is four 16-bit limbs, the least significant first.  U64(n) is `n as u64` of a
\* number of the model and AsInt its inverse on the numbers of the model (below 2^31)
U64(n) == <<n % 65536, n \div 65536, 0, 0>>
AsInt(x) == x[1] + 65536 * x[2]
U64IsZero(x) == x = <<0, 0, 0, 0>>
\* `num as u8`
LowByte(x) == x[1] % 256
\* `num <= 0xff`
AtMostByte(x) == x[1] <= 255 /\ x[2] = 0 /\ x[3] = 0 /\ x[4] = 0
\* a variant of the shift below on a 32-bit number: the upper limbs are lost
ShiftRight7Narrow(x) ==
    <<(x[1] \div 128) + (x[2] % 128) * 512, x[2] \div 128, 0, 0>>
\* `num >>= 7`
ShiftRight7(x) ==
    <<(x[1] \div 128) + (x[2] % 128) * 512, (x[2] \div 128) + (x[3] % 128) * 512,
      (x[3] \div 128) + (x[4] % 128) * 512, x[4] \div 128>>
\* `u64::from(byte) << k` for k in 0..56: bits shifted beyond bit 63 are lost
ByteShiftLeft(byte, k) ==
    [i \in 1..4 |-> IF i = (k \div 16) + 1 THEN (byte * Pow2(k % 16)) % 65536
                    ELSE IF i = (k \div 16) + 2 THEN (byte * Pow2(k % 16)) \div 65536
                    ELSE 0]
RECURSIVE BitOr(_, _)
BitOr(a, b) ==
    IF a = 0 THEN b ELSE IF b = 0 THEN a
    ELSE (IF a % 2 = 1 \/ b % 2 = 1 THEN 1 ELSE 0) + 2 * BitOr(a \div 2, b \div 2)
\* `num |= x`
U64Or(x, y) == [i \in 1..4 |-> BitOr(x[i], y[i])]

\* where a byte was to be pushed and an assertion failed instead
AssertionFailed == [t |-> "panic"]

\* serialize_u64_varint: the bytes pushed from iteration i of `for _ in 0..8` on; the byte
\* after the loop is the rest of the number as it is
RECURSIVE VarintFrom(_, _)
VarintFrom(num, i) ==
    IF i = 8
    THEN IF U64IsZero(num) \/ ~AtMostByte(num) THEN <<AssertionFailed>>
         ELSE <<U8(LowByte(num))>>
    ELSE IF U64IsZero(ShiftRight7(num)) THEN <<U8(LowByte(num) % 128)>>
    ELSE <<U8((LowByte(num) % 128) + 128)>> \o VarintFrom(ShiftRight7(num), i + 1)
serialize_u64_varint(num) == VarintFrom(num, 0)

\* deserialize_u64_varint on the bytes of data from position pos: Some(<<num, position
\* after the number>>), or None when read_u8 fails (a number is never read where a hash
\* lies in the byte strings of the scenarios)
RECURSIVE ReadVarintFrom(_, _, _, _)
ReadVarintFrom(data, pos, i, num) ==
    IF pos > Len(data) \/ data[pos].t # "u8" THEN None
    ELSE IF i = 8 THEN Some(<<U64Or(num, ByteShiftLeft(data[pos].v, 56)), pos + 1>>)
    ELSE IF data[pos].v < 128
    THEN Some(<<U64Or(num, ByteShiftLeft(data[pos].v % 128, 7 * i)), pos + 1>>)
    ELSE ReadVarintFrom(data, pos + 1, i + 1,
                        U64Or(num, ByteShiftLeft(data[pos].v % 128, 7 * i)))
deserialize_u64_varint(data, pos) == ReadVarintFrom(data, pos, 0, U64(0))

\* write_u16::<LittleEndian> and read_u16::<LittleEndian>
write_u16(x) == <<U8(x % 256), U8(x \div 256)>>
read_u16(data, pos) ==
    IF pos + 1 > Len(data) \/ data[pos].t # "u8" \/ data[pos + 1].t # "u8" THEN None
    ELSE Some(data[pos].v + 256 * data[pos + 1].v)

\* the `match child.node_type` of InternalNode::serialize: the bytes after a child's hash
SerializedLeafCount(child, persist_leaf_counts) ==
    IF child.node_type.t = "Leaf" \/ ~persist_leaf_counts THEN <<>>
    ELSE IF child.node_type.t = "InternalLegacy" THEN serialize_u64_varint(U64(0))
    ELSE serialize_u64_varint(U64(child.node_type.leaf_count))

\* the `for _ in 0..existence_bitmap.count_ones()` loop of InternalNode::serialize
RECURSIVE SerializeChildrenFrom(_, _, _)
SerializeChildrenFrom(children, existence_bitmap, persist_leaf_counts) ==
    IF existence_bitmap = 0 THEN <<>>
    ELSE LET next_child == trailing_zeros(existence_bitmap)
             child == Unwrap(ChildAt(children, next_child))
         IN serialize_u64_varint(U64(child.version)) \o <<H32(child.hash)>>
            \o SerializedLeafCount(child, persist_leaf_counts)
            \o SerializeChildrenFrom(children, existence_bitmap - Pow2(next_child),
                                     persist_leaf_counts)

\* InternalNode::serialize
serialize(node, persist_leaf_counts) ==
    write_u16(generate_bitmaps(node)[1]) \o write_u16(generate_bitmaps(node)[2])
    \o SerializeChildrenFrom(node.children, generate_bitmaps(node)[1], persist_leaf_counts)

\* the node type InternalNode::deserialize reads for a child: Some(<<node type, position
\* after it>>), or None when the leaf count cannot be read
LeafCountRead(count) ==
    IF ~IsSome(count) THEN None
    ELSE Some(<<IF AsInt(Unwrap(count)[1]) = 0 THEN NodeTypeInternalLegacy
                ELSE NodeTypeInternal(AsInt(Unwrap(count)[1])),
                Unwrap(count)[2]>>)
ReadNodeType(data, pos, is_leaf, read_leaf_counts) ==
    IF is_leaf THEN Some(<<NodeTypeLeaf, pos>>)
    ELSE IF read_leaf_counts THEN LeafCountRead(deserialize_u64_varint(data, pos))
    ELSE Some(<<NodeTypeInternalLegacy, pos>>)

\* the `for _ in 0..existence_bitmap.count_ones()` loop of InternalNode::deserialize:
\* Some(children), or None on an error
RECURSIVE DeserializeChildrenFrom(_, _, _, _, _, _)
ChildTypeRead(data, existence_bitmap, leaf_bitmap, read_leaf_counts, children, version, hash, typed) ==
    IF ~IsSome(typed) THEN None
    ELSE DeserializeChildrenFrom(data, Unwrap(typed)[2],
             existence_bitmap - Pow2(trailing_zeros(existence_bitmap)),
             leaf_bitmap, read_leaf_counts,
             ChildrenInsert(children, trailing_zeros(existence_bitmap),
                            ChildNew(hash, version, Unwrap(typed)[1])))
ChildVersionRead(data, existence_bitmap, leaf_bitmap, read_leaf_counts, children, version) ==
    IF ~IsSome(version) THEN None
    ELSE IF Unwrap(version)[2] > Len(data) \/ data[Unwrap(version)[2]].t # "h32" THEN None
    ELSE ChildTypeRead(data, existence_bitmap, leaf_bitmap, read_leaf_counts, children,
             AsInt(Unwrap(version)[1]), data[Unwrap(version)[2]].v,
             ReadNodeType(data, Unwrap(version)[2] + 1,
                          Bit(leaf_bitmap, trailing_zeros(existence_bitmap)) = 1,
                          read_leaf_counts))
DeserializeChildrenFrom(data, pos, existence_bitmap, leaf_bitmap, read_leaf_counts, children) ==
    IF existence_bitmap = 0 THEN Some(children)
    ELSE ChildVersionRead(data, existence_bitmap, leaf_bitmap, read_leaf_counts, children,
                          deserialize_u64_varint(data, pos))

\* InternalNode::deserialize: Some(node), or None on an error
ChildrenRead(children, read_leaf_counts) ==
    IF ~IsSome(children) THEN None ELSE new_impl(Unwrap(children), read_leaf_counts)
\* a variant of the validation below without the check of the leaf bitmap
BitmapsReadAnyLeaves(data, read_leaf_counts, existence_bitmap, leaf_bitmap) ==
    IF ~IsSome(existence_bitmap) \/ ~IsSome(leaf_bitmap) THEN None
    ELSE IF Unwrap(existence_bitmap) = 0 THEN None
    ELSE ChildrenRead(DeserializeChildrenFrom(data, 5, Unwrap(existence_bitmap),
                                              Unwrap(leaf_bitmap), read_leaf_counts,
                                              ChildrenNew),
                      read_leaf_counts)
BitmapsRead(data, read_leaf_counts, existence_bitmap, leaf_bitmap) ==
    IF ~IsSome(existence_bitmap) \/ ~IsSome(leaf_bitmap) THEN None
    ELSE IF Unwrap(existence_bitmap) = 0 THEN None
    ELSE IF BitAnd(Unwrap(existence_bitmap), Unwrap(leaf_bitmap)) # Unwrap(leaf_bitmap)
    THEN None
    ELSE ChildrenRead(DeserializeChildrenFrom(data, 5, Unwrap(existence_bitmap),
                                              Unwrap(leaf_bitmap), read_leaf_counts,
                                              ChildrenNew),
                      read_leaf_counts)
deserialize(data, read_leaf_counts) ==
    BitmapsRead(data, read_leaf_counts, read_u16(data, 1), read_u16(data, 3))

\* bcs::to_bytes and bcs::from_bytes of a LeafNode: its fields one after the other, the
\* key hash, the value hash and the value, a byte vector written with its length first (one
\* byte for a length below 128); from_bytes refuses input that ends early or goes on
LeafToBytes(leaf) ==
    <<H32(leaf.key_hash), H32(leaf.value_hash), U8(Len(leaf.value))>>
        \o [i \in 1..Len(leaf.value) |-> U8(leaf.value[i])]
LeafFromBytes(data) ==
    IF /\ Len(data) >= 3 /\ data[1].t = "h32" /\ data[2].t = "h32"
       /\ \A i \in 3..Len(data) : data[i].t = "u8"
       /\ data[3].v < 128 /\ Len(data) = 3 + data[3].v
    THEN Some([type |-> "Leaf", key_hash |-> data[1].v, value_hash |-> data[2].v,
               value |-> [i \in 1..(Len(data) - 3) |-> data[i + 3].v]])
    ELSE None

\* a variant of Node::encode that always persists the leaf counts
NodeEncodeWithCounts(node) ==
    IF node.type = "Null" THEN <<U8(NodeTagNull)>>
    ELSE IF node.type = "Internal"
    THEN <<U8(IF node.leaf_count_migration THEN NodeTagInternal ELSE NodeTagInternalLegacy)>>
         \o serialize(node, TRUE)
    ELSE <<U8(NodeTagLeaf)>> \o LeafToBytes(node)
\* Node::encode
NodeEncode(node) ==
    IF node.type = "Null" THEN <<U8(NodeTagNull)>>
    ELSE IF node.type = "Internal"
    THEN <<U8(IF node.leaf_count_migration THEN NodeTagInternal ELSE NodeTagInternalLegacy)>>
         \o serialize(node, node.leaf_count_migration)
    ELSE <<U8(NodeTagLeaf)>> \o LeafToBytes(node)

\* Node::decode: Some(node), or None on an error
NodeDecode(val) ==
    IF val = <<>> THEN None
    ELSE IF val[1].t # "u8" THEN None
    ELSE IF val[1].v = NodeTagNull THEN Some(NodeNull)
    ELSE IF val[1].v = NodeTagInternalLegacy THEN deserialize(Tail(val), FALSE)
    ELSE IF val[1].v = NodeTagInternal THEN deserialize(Tail(val), TRUE)
    ELSE IF val[1].v = NodeTagLeaf THEN LeafFromBytes(Tail(val))
    ELSE None

----------------------------------------------------------------------------
(* node_type.rs: the bytes of a node key.  A nibble path of the model is    *)
(* the sequence of its nibbles; NibblePath keeps them packed, two a byte.   *)

\* NibblePath::bytes: the packed nibbles, the low nibble of the last byte zero when the
\* number of nibbles is odd
RECURSIVE NibblePathBytes(_)
NibblePathBytes(nibble_path) ==
    IF nibble_path = <<>> THEN <<>>
    ELSE IF Len(nibble_path) = 1 THEN <<U8(16 * nibble_path[1])>>
    ELSE <<U8(16 * nibble_path[1] + nibble_path[2])>>
         \o NibblePathBytes(SubSeq(nibble_path, 3, Len(nibble_path)))
\* NibblePath::new(bytes): two nibbles of every byte
RECURSIVE NibblePathNew(_)
NibblePathNew(bytes) ==
    IF bytes = <<>> THEN <<>>
    ELSE <<bytes[1].v \div 16, bytes[1].v % 16>> \o NibblePathNew(Tail(bytes))
\* NibblePath::new_odd(bytes): the low nibble of the last byte is padding
NibblePathNewOdd(bytes) == Prefix(NibblePathNew(bytes), 2 * Len(bytes) - 1)

\* write_u64::<BigEndian> and read_u64::<BigEndian> (at the start of data)
write_u64(x) ==
    <<U8(x[4] \div 256), U8(x[4] % 256), U8(x[3] \div 256), U8(x[3] % 256),
      U8(x[2] \div 256), U8(x[2] % 256), U8(x[1] \div 256), U8(x[1] % 256)>>
read_u64(data) ==
    IF Len(data) < 8 THEN None
    ELSE Some(<<256 * data[7].v + data[8].v, 256 * data[5].v + data[6].v,
                256 * data[3].v + data[4].v, 256 * data[1].v + data[2].v>>)

\* NodeKey::encode
NodeKeyEncode(node_key) ==
    write_u64(U64(node_key.version)) \o <<U8(Len(node_key.nibble_path) % 256)>>
    \o NibblePathBytes(node_key.nibble_path)

\* a variant of the rest of NodeKey::decode that takes every nibble of the bytes
NibblePathDecodedWithPadding(version, num_nibbles, nibble_bytes) ==
    IF num_nibbles > ROOT_NIBBLE_HEIGHT THEN None
    ELSE IF (num_nibbles + 1) \div 2 # Len(nibble_bytes) THEN None
    ELSE Some(NodeKeyNew(version, NibblePathNew(nibble_bytes)))
\* NodeKey::decode once the version and the number of nibbles are read
NibblePathDecoded(version, num_nibbles, nibble_bytes) ==
    IF num_nibbles > ROOT_NIBBLE_HEIGHT THEN None
    ELSE IF (num_nibbles + 1) \div 2 # Len(nibble_bytes) THEN None
    ELSE IF num_nibbles % 2 = 0 THEN Some(NodeKeyNew(version, NibblePathNew(nibble_bytes)))
    ELSE IF LastOf(nibble_bytes).v % 16 # 0 THEN None
    ELSE Some(NodeKeyNew(version, NibblePathNewOdd(nibble_bytes)))
\* NodeKey::decode: Some(node key), or None on an error
NodeKeyDecode(val) ==
    IF ~IsSome(read_u64(val)) \/ Len(val) < 9 THEN None
    ELSE NibblePathDecoded(AsInt(Unwrap(read_u64(val))), val[9].v, SubSeq(val, 10, Len(val)))

----------------------------------------------------------------------------
(* tests/node_type.rs: the binary tree an internal node stands for *)

BinaryTreeNull == [k |-> "Null"]
\* BinaryTreeNode::new_child
new_child(index, child) ==
    [k |-> "Child", index |-> index, version |-> child.version, hash |-> child.hash,
     is_leaf |-> ChildIsLeaf(child)]
\* BinaryTreeNode::hash
BinaryTreeNodeHash(n) == IF n.k = "Null" THEN SPARSE_MERKLE_PLACEHOLDER_HASH ELSE n.hash
\* BinaryTreeNode::new_internal
new_internal(first_child_index, num_children, left, right) ==
    [k |-> "Internal", begin |-> first_child_index, width |-> num_children,
     left |-> left, right |-> right,
     hash |-> SparseMerkleInternalNodeHash(BinaryTreeNodeHash(left),
                                           BinaryTreeNodeHash(right))]
\* the `match (&left, &right)` of NaiveInternalNode::node_for_subtree
SubtreeOf(begin, width, left, right) ==
    IF left.k = "Null" /\ right.k = "Null" THEN BinaryTreeNull
    ELSE IF left.k = "Null" /\ right.k = "Child" /\ right.is_leaf THEN right
    ELSE IF left.k = "Child" /\ right.k = "Null" /\ left.is_leaf THEN left
    ELSE new_internal(begin, width, left, right)
\* NaiveInternalNode::node_for_subtree
RECURSIVE node_for_subtree(_, _, _)
node_for_subtree(begin, width, children) ==
    IF width = 1
    THEN IF IsSome(ChildAt(children, begin))
         THEN new_child(begin, Unwrap(ChildAt(children, begin)))
         ELSE BinaryTreeNull
    ELSE SubtreeOf(begin, width,
                   node_for_subtree(begin, width \div 2, children),
                   node_for_subtree(begin + width \div 2, width \div 2, children))
\* NaiveInternalNode::from_clever_node
from_clever_node(node) == node_for_subtree(0, 16, node.children)
\* BinaryTreeInternalNode::in_left_subtree
in_left_subtree(node, n) == n < node.begin + node.width \div 2
\* NaiveInternalNode::get_child_with_siblings: <<Option<NodeKey>, siblings>>
RECURSIVE NaiveWalk(_, _, _, _)
NaiveWalk(current_node, node_key, n, siblings) ==
    IF current_node.k = "Internal"
    THEN IF in_left_subtree(current_node, n)
         THEN NaiveWalk(current_node.left, node_key, n,
                        Append(siblings, BinaryTreeNodeHash(current_node.right)))
         ELSE NaiveWalk(current_node.right, node_key, n,
                        Append(siblings, BinaryTreeNodeHash(current_node.left)))
    ELSE IF current_node.k = "Child"
    THEN <<Some(gen_child_node_key(node_key, current_node.version, current_node.index)),
           siblings>>
    ELSE <<None, siblings>>
naive_get_child_with_siblings(root, node_key, n) == NaiveWalk(root, node_key, n, <<>>)

----------------------------------------------------------------------------
(* Node scenarios: children are drawn, an internal node is built of them   *)
(* and its operations are called; bytes are decoded                        *)

\* the slots that may hold a child, and the largest number of children
NodeSlots == {0, 1, 2, 4, 8, 15}
MaxChildren == 3
\* the <<version, node type>> a child record may carry
ChildKinds ==
    {<<200, NodeTypeLeaf>>, <<1, NodeTypeInternalLegacy>>, <<1, NodeTypeInternal(200)>>,
     <<200, NodeTypeInternal(0)>>}
\* the hash of the child in a slot
ChildHashAt(i) == <<"C", i>>
ChildrenWith(kinds) ==
    [n \in 1..16 |-> IF (n - 1) \in DOMAIN kinds
                     THEN Some(ChildNew(ChildHashAt(n - 1), kinds[n - 1][1], kinds[n - 1][2]))
                     ELSE None]
ChildrenInputs ==
    UNION {{ChildrenWith(kinds) : kinds \in [S -> ChildKinds]} :
              S \in {T \in SUBSET NodeSlots : Cardinality(T) <= MaxChildren}}
\* the node keys an internal node is looked at under
NodeKeys == {new_empty_path(0), NodeKeyNew(1, <<5>>)}

\* the ChildInfo a slot of a partial node may hold: a leaf, or an internal child of known
\* hash. The known hash is what internal_node.hash() returned of a node with children
\* (freeze_internal_nodes, recover_partial_nodes), which is never the placeholder.
ChildInfoKinds == {"Leaf", "Internal"}
ChildInfoAt(i, kind) ==
    IF kind = "Leaf"
    THEN ChildInfoLeaf(LeafNodeNewHashed([n \in 1..ROOT_NIBBLE_HEIGHT |-> i], ValueHashWith(1)))
    ELSE ChildInfoInternal(Some(ChildHashAt(i)), 2)
ChildInfosWith(kinds) ==
    [n \in 1..16 |-> IF (n - 1) \in DOMAIN kinds THEN Some(ChildInfoAt(n - 1, kinds[n - 1]))
                     ELSE None]
ChildInfoInputs ==
    UNION {{ChildInfosWith(kinds) : kinds \in [S -> ChildInfoKinds]} :
              S \in {T \in SUBSET NodeSlots : Cardinality(T) <= MaxChildren}}
\* the aligned power-of-two ranges of the sixteen slots, <<start, width>>
AlignedRanges ==
    UNION {{<<start, Pow2(height)>> : start \in {n \in Slots : n % Pow2(height) = 0}} :
              height \in 0..4}

Probe(op, children, node, bytes, result) ==
    [op |-> op, children |-> children, node |-> node, bytes |-> bytes, result |-> result]

InitNode ==
    /\ mode = "node"
    /\ \/ \E children \in ChildrenInputs :
             probe = Probe(<<"children">>, children, None, <<>>, None)
       \/ \E k \in Keys, v \in Values :
             probe = Probe(<<"leaf">>, ChildrenNew, Some(LeafNodeNew(k, v)),
                           <<>>, None)
       \/ \E infos \in ChildInfoInputs :
             probe = Probe(<<"child_infos">>, infos, None, <<>>, None)
    /\ store = EmptyBatch /\ tree = EmptyMap /\ snapshot = NoSnapshot
    /\ stream = <<>> /\ expected_root_hash = <<>> /\ rs = NoRestore /\ fed = <<>>
    /\ last = NoCall /\ run = NewRun /\ it = NoIter /\ out = NoOut /\ readers = <<>>

NodeUnchanged ==
    UNCHANGED <<store, mode, tree, snapshot, stream, expected_root_hash, rs, fed, last, run,
                it, out, readers>>

\* InternalNode::new_impl(children, leaf_count_migration)
CallNewImpl ==
    /\ mode = "node" /\ probe.op[1] = "children"
    /\ \E leaf_count_migration \in BOOLEAN :
          probe' = [probe EXCEPT !.op = <<"new_impl", leaf_count_migration>>,
                                 !.node = new_impl(probe.children, leaf_count_migration)]
    /\ NodeUnchanged

\* an internal node has been built and nothing called on it yet
Built == mode = "node" /\ probe.op[1] = "new_impl" /\ IsSome(probe.node)

\* InternalNode::hash
CallHash ==
    /\ Built
    /\ probe' = [probe EXCEPT !.op = <<"hash">>,
                              !.result = InternalNodeHash(Unwrap(probe.node))]
    /\ NodeUnchanged

\* InternalNode::get_child_with_siblings(node_key, n)
CallGetChildWithSiblings ==
    /\ Built
    /\ \E node_key \in NodeKeys, n \in Slots :
          probe' = [probe EXCEPT
                       !.op = <<"get_child_with_siblings", node_key, n>>,
                       !.result = get_child_with_siblings(Unwrap(probe.node), node_key, n)]
    /\ NodeUnchanged

\* InternalNode::get_child_without_siblings(node_key, n)
CallGetChildWithoutSiblings ==
    /\ Built
    /\ \E node_key \in NodeKeys, n \in Slots :
          probe' = [probe EXCEPT
                       !.op = <<"get_child_without_siblings", node_key, n>>,
                       !.result = get_child_without_siblings(Unwrap(probe.node), node_key, n)]
    /\ NodeUnchanged

\* Node::encode of the internal node built, or of the leaf
CallEncode ==
    /\ Built \/ (mode = "node" /\ probe.op[1] = "leaf")
    /\ probe' = [probe EXCEPT !.op = <<"encode">>, !.bytes = NodeEncode(Unwrap(probe.node))]
    /\ NodeUnchanged

\* Node::decode of the bytes encode returned
CallDecode ==
    /\ mode = "node" /\ probe.op[1] = "encode"
    /\ probe' = [probe EXCEPT !.op = <<"decode">>, !.result = NodeDecode(probe.bytes)]
    /\ NodeUnchanged

\* the bytes of an internal node as storage may hold them: a tag, the two bitmaps and the
\* child records of the children drawn, whether or not a node can be built of them; with
\* stray_leaf the leaf bitmap has the bit of every slot set
StoredBytes(children, leaf_counts, stray_leaf) ==
    <<U8(IF leaf_counts THEN NodeTagInternal ELSE NodeTagInternalLegacy)>>
    \o write_u16(BitmapFrom(children, FALSE, 0))
    \o write_u16(IF stray_leaf THEN 65535 ELSE BitmapFrom(children, TRUE, 0))
    \o SerializeChildrenFrom(children, BitmapFrom(children, FALSE, 0), leaf_counts)

\* Node::decode of bytes read from storage
CallDecodeStored ==
    /\ mode = "node" /\ probe.op[1] = "children"
    /\ \E leaf_counts \in BOOLEAN, stray_leaf \in BOOLEAN :
          probe' = [probe EXCEPT
                       !.op = <<"decode_stored", leaf_counts, stray_leaf>>,
                       !.bytes = StoredBytes(probe.children, leaf_counts, stray_leaf),
                       !.result = NodeDecode(StoredBytes(probe.children, leaf_counts,
                                                         stray_leaf))]
    /\ NodeUnchanged

\* JellyfishMerkleRestore::compute_left_sibling_impl(&children[start..start + width]);
\* the node is what InternalInfo::into_internal_node makes of the same children
CallComputeLeftSiblingImpl ==
    /\ mode = "node" /\ probe.op[1] = "child_infos"
    /\ \E range \in AlignedRanges :
          probe' = [probe EXCEPT
                       !.op = <<"compute_left_sibling_impl", range[1], range[2]>>,
                       !.node = into_internal_node(
                                   [node_key |-> new_empty_path(1),
                                    children |-> probe.children], 1),
                       !.result = compute_left_sibling_impl(probe.children, range[1],
                                                            range[2])]
    /\ NodeUnchanged

NextNode ==
    \/ CallNewImpl
    \/ CallHash
    \/ CallGetChildWithSiblings
    \/ CallGetChildWithoutSiblings
    \/ CallEncode
    \/ CallDecode
    \/ CallDecodeStored
    \/ CallComputeLeftSiblingImpl

SpecNode == InitNode /\ [][NextNode]_vars

\* the node scenarios and the restore scenarios together
NextNodeRestore == NextNode \/ (mode = "restore" /\ NextRestore)
SpecNodeRestore == (InitNode \/ InitRestore) /\ [][NextNodeRestore]_vars

----------------------------------------------------------------------------
(* Encoding scenarios: node keys and 64-bit numbers are written and read    *)
(* back, and bytes that are no encoding of anything are decoded             *)

\* the node keys encoded: versions of one to four bytes, every path of up to
\* ROOT_NIBBLE_HEIGHT nibbles over three nibbles
EncodedVersions == {0, 1, 258, 16909060}
EncodedNibbles == {0, 5, 15}
EncodedNodeKeys ==
    {NodeKeyNew(version, nibble_path) :
        version \in EncodedVersions,
        nibble_path \in UNION {NibbleSeqs(EncodedNibbles, n) : n \in 0..ROOT_NIBBLE_HEIGHT}}

\* 2^k and 2^k - 1 as a u64
PowerOfTwo(k) == [i \in 1..4 |-> IF i = (k \div 16) + 1 THEN Pow2(k % 16) ELSE 0]
OnesBelow(k) ==
    [i \in 1..4 |-> IF i < (k \div 16) + 1 THEN 65535
                    ELSE IF i = (k \div 16) + 1 THEN Pow2(k % 16) - 1 ELSE 0]
\* the numbers written as a varint: around every power of two, the largest, and some of
\* mixed bits
VarintInputs ==
    {PowerOfTwo(k) : k \in 0..63} \cup {OnesBelow(k) : k \in 0..63}
    \cup {<<65535, 65535, 65535, 65535>>, <<4660, 22136, 39612, 57072>>,
          <<128, 0, 0, 32768>>, <<0, 1, 0, 256>>, <<43690, 21845, 43690, 85>>}

\* fewer than 32 bytes of a hash, at the end of the bytes
ShortHash(h) == [t |-> "short", v |-> h]

\* what a key's bytes are in storage when something is wrong with them: the byte of the
\* number of nibbles holds num_nibbles, the low nibble of the last byte is padding (when
\* padding is not zero and there are nibble bytes)
StoredKeyBytes(node_key, num_nibbles, padding) ==
    LET nibble_bytes == NibblePathBytes(node_key.nibble_path)
    IN write_u64(U64(node_key.version)) \o <<U8(num_nibbles)>>
       \o (IF padding = 0 \/ nibble_bytes = <<>> THEN nibble_bytes
           ELSE SetLast(nibble_bytes, U8(16 * (LastOf(nibble_bytes).v \div 16) + padding)))

\* what is wrong with the bytes of an internal node
NodeFaults ==
    {<<"empty">>, <<"tag", 4>>, <<"tag", 255>>, <<"no_children">>, <<"extra_leaves">>,
     <<"short_hash">>, <<"no_hash">>}
\* the lowest slot without a child
RECURSIVE FreeSlotFrom(_, _)
FreeSlotFrom(children, i) ==
    IF i = 15 \/ ~IsSome(ChildAt(children, i)) THEN i ELSE FreeSlotFrom(children, i + 1)
\* the bytes of the child records with the last hash cut short, or left out
CutAtLastHash(records, fault) ==
    LET last_hash == CHOOSE i \in 1..Len(records) :
                        /\ records[i].t = "h32"
                        /\ \A j \in (i + 1)..Len(records) : records[j].t # "h32"
    IN SubSeq(records, 1, last_hash - 1)
       \o (IF fault = <<"short_hash">> THEN <<ShortHash(records[last_hash].v)>> ELSE <<>>)
\* the bytes of an internal node of the children drawn, with a fault
FaultyBytes(children, leaf_counts, fault) ==
    LET tag == IF leaf_counts THEN NodeTagInternal ELSE NodeTagInternalLegacy
        existence_bitmap == BitmapFrom(children, FALSE, 0)
        leaf_bitmap == BitmapFrom(children, TRUE, 0)
        records == SerializeChildrenFrom(children, existence_bitmap, leaf_counts)
    IN IF fault = <<"empty">> THEN <<>>
       ELSE IF fault[1] = "tag"
       THEN <<U8(fault[2])>> \o write_u16(existence_bitmap) \o write_u16(leaf_bitmap)
            \o records
       ELSE IF fault = <<"no_children">>
       THEN <<U8(tag)>> \o write_u16(0) \o write_u16(0) \o records
       ELSE IF fault = <<"extra_leaves">>
       THEN <<U8(tag)>> \o write_u16(existence_bitmap)
            \o write_u16(leaf_bitmap + Pow2(FreeSlotFrom(children, 0))) \o records
       ELSE <<U8(tag)>> \o write_u16(existence_bitmap) \o write_u16(leaf_bitmap)
            \o CutAtLastHash(records, fault)

InitCodec ==
    /\ mode = "codec"
    /\ probe = NoProbe /\ readers = <<>>
    /\ store = EmptyBatch /\ tree = EmptyMap /\ snapshot = NoSnapshot
    /\ stream = <<>> /\ expected_root_hash = <<>> /\ rs = NoRestore /\ fed = <<>>
    /\ last = NoCall /\ run = NewRun /\ it = NoIter /\ out = NoOut

Fresh == mode = "codec" /\ probe.op[1] = "none"

\* NodeKey::encode
CallNodeKeyEncode ==
    /\ Fresh
    /\ \E node_key \in EncodedNodeKeys :
          probe' = Probe(<<"key_encode", node_key>>, ChildrenNew, None,
                         NodeKeyEncode(node_key), None)
    /\ NodeUnchanged

\* NodeKey::decode of the bytes encode returned
CallNodeKeyDecode ==
    /\ mode = "codec" /\ probe.op[1] = "key_encode"
    /\ probe' = [probe EXCEPT !.op = <<"key_decode", probe.op[2]>>,
                              !.result = NodeKeyDecode(probe.bytes)]
    /\ NodeUnchanged

\* NodeKey::decode of bytes read from storage
CallNodeKeyDecodeStored ==
    /\ Fresh
    /\ \E node_key \in EncodedNodeKeys, num_nibbles \in 0..(ROOT_NIBBLE_HEIGHT + 2),
          padding \in {0, 7} :
          probe' = Probe(<<"key_decode_stored", node_key, num_nibbles, padding>>,
                         ChildrenNew, None,
                         StoredKeyBytes(node_key, num_nibbles, padding),
                         NodeKeyDecode(StoredKeyBytes(node_key, num_nibbles, padding)))
    /\ NodeUnchanged

\* serialize_u64_varint
CallSerializeVarint ==
    /\ Fresh
    /\ \E num \in VarintInputs :
          probe' = Probe(<<"varint", num>>, ChildrenNew, None, serialize_u64_varint(num),
                         None)
    /\ NodeUnchanged

\* deserialize_u64_varint of the bytes serialize_u64_varint pushed
CallDeserializeVarint ==
    /\ mode = "codec" /\ probe.op[1] = "varint"
    /\ probe' = [probe EXCEPT !.op = <<"varint_read", probe.op[2]>>,
                              !.result = deserialize_u64_varint(probe.bytes, 1)]
    /\ NodeUnchanged

\* Node::decode of the bytes of an internal node with a fault
CallDecodeFaulty ==
    /\ Fresh
    /\ \E children \in ChildrenInputs, leaf_counts \in BOOLEAN, fault \in NodeFaults :
          /\ fault \in {<<"short_hash">>, <<"no_hash">>} => NumChildren(children) >= 1
          /\ probe' = Probe(<<"decode_faulty", leaf_counts, fault>>, children, None,
                            FaultyBytes(children, leaf_counts, fault),
                            NodeDecode(FaultyBytes(children, leaf_counts, fault)))
    /\ NodeUnchanged

NextCodec ==
    \/ CallNodeKeyEncode
    \/ CallNodeKeyDecode
    \/ CallNodeKeyDecodeStored
    \/ CallSerializeVarint
    \/ CallDeserializeVarint
    \/ CallDecodeFaulty

SpecCodec == InitCodec /\ [][NextCodec]_vars

----------------------------------------------------------------------------
(* Properties *)

IsPrefixSeq(a, b) == Len(a) <= Len(b) /\ a = SubSeq(b, 1, Len(a))
\* the pairs of the tree for the keys, in their order
PairsFrom(keys) == [i \in 1..Len(keys) |-> <<keys[i], tree[keys[i]].value>>]
\* the pairs visible at version whose key is not below starting_key, ascending
PairsAtOrAbove(version, starting_key) ==
    PairsFrom(SortedKeys({k \in KeysAt(tree, version) : KeyLeq(starting_key, k)}))
\* s without its first n elements
Skip(s, n) == IF n >= Len(s) THEN <<>> ELSE SubSeq(s, n + 1, Len(s))
\* what the iterator has yielded so far agrees with expected, and is all of it at the end
YieldsExactly(expected) ==
    /\ ~out.failed
    /\ IsPrefixSeq(out.items, expected)
    /\ out.ended => out.items = expected

\* C4: an iterator built by new(reader, V, s) yields exactly the pairs of version V whose
\* key is at least s, in ascending order, and then signals the end; this covers s = 0, s a
\* stored key, s one above a stored key and s = 0xFF..FF
C4_NewYieldsFromStartingKey ==
    (mode = "iterate" /\ out.ctor[1] = "new")
        => YieldsExactly(PairsAtOrAbove(out.ctor[2], out.ctor[3]))
\* an iterator started one above a stored key has yielded some but not all pairs and ended
C4_Witness ==
    /\ mode = "iterate" /\ out.ctor[1] = "new" /\ out.ended
    /\ \E k \in KeysAt(tree, out.ctor[2]) : out.ctor[3] = plus_one(k)
    /\ out.items # <<>>
    /\ Len(out.items) < Cardinality(KeysAt(tree, out.ctor[2]))

\* C5: whatever the constructor, the key hashes an iterator yields are strictly ascending
C5_StrictlyAscending ==
    \A i, j \in 1..Len(out.items) :
        i < j => KeyLess(out.items[i][1], out.items[j][1])
\* an iterator built by index has yielded a run of at least two pairs
C5_Witness ==
    /\ mode = "iterate" /\ out.ctor[1] = "new_by_index" /\ out.ctor[3] >= 1
    /\ Len(out.items) >= 2

\* C10: an iterator built by new_by_index(reader, V, j) yields the pairs of version V from
\* the (j+1)-th smallest key on, in ascending order; with j at or above the number of
\* pairs it is done from its construction and yields nothing
C10_NewByIndexYieldsFromIndex ==
    (mode = "iterate" /\ out.ctor[1] = "new_by_index")
        => /\ YieldsExactly(Skip(PairsAtOrAbove(out.ctor[2], ZeroKey), out.ctor[3]))
           /\ out.ctor[3] >= Cardinality(KeysAt(tree, out.ctor[2]))
                 => (it.done /\ it.parent_stack = <<>> /\ out.items = <<>>)
\* an iterator started at an index inside the tree has skipped and yielded pairs and ended
C10_Witness ==
    /\ mode = "iterate" /\ out.ctor[1] = "new_by_index" /\ out.ended
    /\ out.ctor[3] >= 1
    /\ Len(out.items) >= 2
    /\ Len(out.items) + out.ctor[3] = Cardinality(KeysAt(tree, out.ctor[2]))

\* the hash of the root node st holds at the empty path of the target version, if any
RootHashOf(st) ==
    IF IsSome(get_node_option(st, new_empty_path(MaxVersion)))
    THEN Some(NodeHash(Unwrap(get_node_option(st, new_empty_path(MaxVersion)))))
    ELSE None
\* the first n pairs of the stream
StreamUpTo(n) == SubSeq(stream, 1, n)
\* the restore was neither restarted nor sent anything but the genuine chunks in order
StraightRun == run.restarts = 0 /\ run.from_fed

\* C1: for any set of pairs whose tree has root hash R, streaming the pairs in ascending
\* order to a fresh restorer expecting R, in non-empty chunks with their genuine range
\* proofs, and then calling finish leaves a tree whose root hash is R
C1_RestoreEquivalence ==
    (mode = "restore" /\ StraightRun /\ last.op = "finish" /\ fed = stream)
        => (last.result = "Ok" /\ RootHashOf(store) = Some(expected_root_hash))

\* C2: in such a restore no genuine chunk is rejected: every add_chunk returns Ok, and the
\* final finish returns Ok
C2_GenuineChunksAccepted ==
    (mode = "restore" /\ StraightRun)
        => /\ last.op = "add_chunk" => last.result = "Ok"
           /\ (last.op = "finish" /\ fed = stream) => last.result = "Ok"

\* C3: when all add_chunk calls and finish returned Ok, iterating the restored tree from
\* starting key 0 yields exactly the pairs that were streamed in, in ascending order
C3_IterationYieldsStreamed ==
    (mode = "restore" /\ run.errors = 0 /\ out.ctor[1] = "new")
        => YieldsExactly(StreamUpTo(AckPos))

\* C8: whenever every add_chunk call and finish returned Ok, the root node persisted at the
\* empty path of the target version hashes to expected_root_hash
C8_RootIsExpected ==
    (mode = "restore" /\ run.errors = 0 /\ last.op = "finish" /\ last.result = "Ok")
        => RootHashOf(store) = Some(expected_root_hash)

\* the store an uninterrupted restore of the whole stream leaves: a fresh restorer on an
\* empty store, one chunk with all pairs, finish
FinishedStore(added) == finish_impl(added.rs, added.store, TRUE).store
UninterruptedStore ==
    FinishedStore(add_chunk_impl(JellyfishMerkleRestoreNew(EmptyBatch, MaxVersion, TRUE), EmptyBatch,
                                 expected_root_hash, stream, snapshot.proofs[Len(stream)],
                                 TRUE))
\* the restore was interrupted, each time after some add_chunk had succeeded and before
\* finish
Interrupted == run.restarts >= 1 /\ run.interrupted

\* C9: when a restore is interrupted after some add_chunk calls succeeded and a new
\* restorer is built on the store as left, feeding it the chunks not yet successfully
\* added and calling finish succeeds at every call and leaves the store of an
\* uninterrupted run
C9_ResumeWithRemainingChunks ==
    (mode = "restore" /\ Interrupted /\ run.from_fed)
        => /\ last.op \in {"new", "add_chunk"} => last.result = "Ok"
           /\ (last.op = "finish" /\ AckPos = Len(stream))
                 => (last.result = "Ok" /\ store = UninterruptedStore)

\* C9, amended: the new restorer resumes after the rightmost leaf node of the store, which
\* is the pair before the last one acknowledged (from the start when the store holds no
\* leaf node); feeding it the pairs that follow that leaf in genuine chunks, and calling
\* finish after the last pair of the stream, succeeds at every call and leaves the store of
\* an uninterrupted run
C9_ResumeAfterRightmostLeaf ==
    (mode = "restore" /\ Interrupted /\ run.aligned)
        => /\ last.op \in {"new", "add_chunk"} => last.result = "Ok"
           /\ (last.op = "finish" /\ PrevPos = Len(stream))
                 => (last.result = "Ok" /\ store = UninterruptedStore)
\* a restore interrupted after more than one pair was acknowledged has been resumed by a
\* restorer that recovered a leaf, was fed through the last pair, and has finished
C9_Witness ==
    /\ mode = "restore" /\ Interrupted /\ run.aligned
    /\ last.op = "finish" /\ last.result = "Ok"
    /\ PrevPos = Len(stream)
    /\ Len(fed) > Len(stream)
    /\ rs.num_keys_received < Len(stream)
    /\ rs.num_keys_received >= 2

\* C6: when add_chunk returns an error (EmptyChunk, OutOfOrder or VerificationFailed) the
\* store is exactly as it was before the call: the frozen nodes are written only after
\* the verification has succeeded
C6_ErrorLeavesStore ==
    [][(last'.op = "add_chunk" /\ last'.result # "Ok") => store' = store]_vars
\* a chunk has been refused by the verification after an earlier chunk had been written
C6_Witness ==
    /\ mode = "adversary"
    /\ last.op = "add_chunk" /\ last.result = "VerificationFailed"
    /\ fed # <<>>
    /\ ~BatchIsEmpty(store)
    /\ ~BatchIsEmpty(rs.frozen_nodes)

\* C7: add_chunk returns OutOfOrder whenever a key is not greater than the key added just
\* before it, inside one chunk as well as across chunks, and then persists nothing
C7_OutOfOrderRejected ==
    [][(last'.op = "add_chunk" /\ last'.unordered)
          => (last'.result = "OutOfOrder" /\ store' = store)]_vars
\* a chunk whose first key is not above the last key of the chunk before it was refused
C7_Witness ==
    /\ mode = "adversary"
    /\ last.op = "add_chunk" /\ last.unordered /\ last.result = "OutOfOrder"
    /\ fed # <<>>
    /\ ~BatchIsEmpty(store)


----------------------------------------------------------------------------
(* Iteration over special trees, termination and versions *)

\* the node under the empty path of a version of the store
RootAt(version) == Unwrap(get_node(store, new_empty_path(version)))
\* the pair an iterator yields for a leaf
PairOf(leaf) == <<leaf.key_hash, tree[leaf.key_hash].value>>

\* C12: for a tree whose root is not an internal node, new(reader, V, s) on a Null root
\* gives an iterator that is done and yields nothing; on a root that is a single leaf L
\* with s <= L.key it yields L exactly once, is done from then on and signals the end; with
\* s > L.key it is done from its construction and yields nothing
C12_NonInternalRoot ==
    (mode = "iterate" /\ out.ctor[1] = "new" /\ RootAt(out.ctor[2]).type # "Internal")
        => /\ ~out.failed /\ ~out.resumed
           /\ IF RootAt(out.ctor[2]).type = "Leaf"
                 /\ KeyLeq(out.ctor[3], RootAt(out.ctor[2]).key_hash)
              THEN /\ IsPrefixSeq(out.items, <<PairOf(RootAt(out.ctor[2]))>>)
                   /\ it.done <=> out.items # <<>>
                   /\ out.ended => it.done
              ELSE it.done /\ out.items = <<>>
\* the single leaf of a tree has been yielded and the end signalled after it
C12_Witness ==
    /\ mode = "iterate" /\ out.ctor[1] = "new" /\ RootAt(out.ctor[2]).type = "Leaf"
    /\ out.ctor[3] = RootAt(out.ctor[2]).key_hash
    /\ Len(out.items) = 1 /\ out.ended

\* the enabling condition of CallIteratorNext; every call changes out
CallIteratorNextEnabled ==
    /\ it.status = "ok"
    /\ ~out.failed /\ ~out.resumed
    /\ Len(out.items) <= MaxKeys
    /\ out.after_end < MaxCallsAfterEnd
\* the iterate scenarios in which the caller goes on calling next(): weak fairness of
\* CallIteratorNext, that is WF_vars(CallIteratorNext), written out with the enabling
\* condition of the action
SpecIterateFair ==
    SpecIterate /\ ([]<>(~CallIteratorNextEnabled) \/ []<><<CallIteratorNext>>_vars)

\* C13: over a store whose reads succeed, the calls of next() on an iterator eventually
\* return end, having yielded at most as many items as the tree of its version has keys,
\* and the calls made after that end all return end again: none fails or yields
C13_NextTerminates ==
    (it.status = "ok") ~>
        (/\ out.ended /\ out.after_end = MaxCallsAfterEnd /\ ~out.resumed /\ ~out.failed
         /\ Len(out.items) <= Cardinality(KeysAt(tree, it.version)))
\* every pair of a full tree was yielded, the end returned, and next() called again after it
C13_Witness ==
    /\ mode = "iterate" /\ it.status = "ok" /\ out.ended
    /\ Len(out.items) = MaxKeys
    /\ out.after_end = MaxCallsAfterEnd

\* the node keys on the stack of the iterator are the ones the child records lead to: the
\* first is the empty path at the version of the iterator, and each next one carries the
\* nibble and the version of a child record of the node before it
StackFollowsChildRecords ==
    \A i \in 1..Len(it.parent_stack) :
        LET info == it.parent_stack[i]
        IN IF i = 1 THEN info.node_key = new_empty_path(it.version)
           ELSE LET parent == it.parent_stack[i - 1]
                    nibble == info.node_key.nibble_path[Len(info.node_key.nibble_path)]
                    child == ChildAt(parent.node.children, nibble)
                IN /\ IsSome(child)
                   /\ info.node_key =
                         gen_child_node_key(parent.node_key, Unwrap(child).version, nibble)
\* the store of the tree as of one version only
StoreOfVersion(version) == RefStore(tree, {version})
\* the nodes the iterator has on its stack are nodes of its version of the tree
StackWithinVersion ==
    \A i \in 1..Len(it.parent_stack) :
        /\ it.parent_stack[i].node_key \in DOMAIN StoreOfVersion(it.version).nodes
        /\ it.parent_stack[i].node =
              StoreOfVersion(it.version).nodes[it.parent_stack[i].node_key]

\* C14: in a store that holds the trees of several versions, which share the subtrees that
\* did not change, an iterator at version V (by key or by index) yields exactly the pairs
\* of the keys present at V: it starts at the empty path of V, reaches each node under the
\* version recorded in the child record of its parent, and visits no node outside the tree
\* of V
C14_IterationAtVersion ==
    (mode = "iterate" /\ it.status # "none")
        => /\ it.status = "ok"
           /\ YieldsExactly(IF out.ctor[1] = "new"
                            THEN PairsAtOrAbove(out.ctor[2], out.ctor[3])
                            ELSE Skip(PairsAtOrAbove(out.ctor[2], ZeroKey), out.ctor[3]))
           /\ StackFollowsChildRecords
           /\ StackWithinVersion
\* an iterator at the newest version has gone through a root one of whose child records
\* points at a node written at an older version, and has yielded every pair and ended
C14_Witness ==
    /\ mode = "iterate" /\ out.ended /\ out.ctor[2] = MaxVersion
    /\ RootAt(MaxVersion).type = "Internal"
    /\ \E n \in Slots :
          /\ IsSome(ChildAt(RootAt(MaxVersion).children, n))
          /\ Unwrap(ChildAt(RootAt(MaxVersion).children, n)).version < MaxVersion
    /\ \E k \in DOMAIN tree : tree[k].version = MaxVersion
    /\ Len(out.items) = MaxKeys


----------------------------------------------------------------------------
(* The root a restore leaves *)

\* the stored node under the empty path of the target version, if any
RestoredRoot == get_node_option(store, new_empty_path(MaxVersion))
\* the root the claim describes for the n keys received
RootAsDescribed(n) ==
    /\ IsSome(RestoredRoot)
    /\ n = 0 => Unwrap(RestoredRoot).type = "Null"
    /\ n = 1 => /\ Unwrap(RestoredRoot) = LeafNodeNewHashed(fed[1][1], ValueHashWith(fed[1][2]))
                /\ \A nk \in DOMAIN store.nodes : store.nodes[nk].type # "Internal"
    /\ n >= 2 => Unwrap(RestoredRoot).type = "Internal"

----------------------------------------------------------------------------
(* Internal nodes: validity, hash, child lookup and encoding *)

\* the children are none at all, or a single leaf
EmptyOrSingleLeaf(children) ==
    \/ \A i \in Slots : ~IsSome(ChildAt(children, i))
    \/ \E i \in Slots :
          /\ IsSome(ChildAt(children, i)) /\ Unwrap(ChildAt(children, i)).node_type.t = "Leaf"
          /\ \A j \in Slots \ {i} : ~IsSome(ChildAt(children, j))
\* the node has a child, not a leaf when it is the only one, and its bitmaps agree
HasLogicalChildren(node) ==
    /\ ~EmptyOrSingleLeaf(node.children)
    /\ generate_bitmaps(node)[1] # 0
    /\ BitAnd(generate_bitmaps(node)[2], 65535 - generate_bitmaps(node)[1]) = 0
\* the internal nodes among the nodes of a batch or store
InternalNodesOf(st) ==
    {st.nodes[nk] : nk \in {k \in DOMAIN st.nodes : st.nodes[k].type = "Internal"}}

\* C16: every internal node built by new_impl, returned by decode or written by the
\* restorer has at least one child, a non-leaf child when it has exactly one, an existence
\* bitmap that is not zero and a leaf bitmap within it; building a node of no children or
\* of a single leaf child fails, from children and from bytes alike
C16_InternalNodesAreLogical ==
    /\ (mode = "node" /\ probe.op[1] = "new_impl")
          => /\ IsSome(probe.node) <=> ~EmptyOrSingleLeaf(probe.children)
             /\ IsSome(probe.node) => HasLogicalChildren(Unwrap(probe.node))
    /\ (mode = "node" /\ probe.op[1] \in {"decode", "decode_stored"} /\ IsSome(probe.result)
        /\ Unwrap(probe.result).type = "Internal")
          => HasLogicalChildren(Unwrap(probe.result))
    /\ (mode = "node" /\ probe.op[1] = "decode_stored" /\ EmptyOrSingleLeaf(probe.children))
          => ~IsSome(probe.result)
    /\ mode = "restore"
          => /\ \A node \in InternalNodesOf(store) : HasLogicalChildren(node)
             /\ rs.status = "open"
                   => \A node \in InternalNodesOf(rs.frozen_nodes) : HasLogicalChildren(node)
\* the bytes of a single leaf child were refused by decode
C16_Witness ==
    /\ mode = "node" /\ probe.op[1] = "decode_stored" /\ ~probe.op[3]
    /\ NumChildren(probe.children) = 1 /\ EmptyOrSingleLeaf(probe.children)
    /\ ~IsSome(probe.result)

\* C17: the hash of an internal node is the root hash of the binary tree over its 16
\* slots in which an empty range is the placeholder, a range whose only child is a leaf is
\* that leaf's hash, a slot is its child's hash, and any other range, also one whose only
\* child is not a leaf, is the internal hash of its two halves
C17_HashIsBinaryTreeRoot ==
    (mode = "node" /\ probe.op[1] = "hash")
        => probe.result = BinaryTreeNodeHash(from_clever_node(Unwrap(probe.node)))
\* the hash of a node with a leaf alone in the lower half, collapsed, and a non-leaf
\* child alone in the upper half, not collapsed
C17_Witness ==
    /\ mode = "node" /\ probe.op[1] = "hash"
    /\ NumChildren(Unwrap(probe.node).children) = 2
    /\ probe.result =
          SparseMerkleInternalNodeHash(
              ChildHashAt(0),
              SparseMerkleInternalNodeHash(
                  SparseMerkleInternalNodeHash(
                      SparseMerkleInternalNodeHash(ChildHashAt(8),
                                                   SPARSE_MERKLE_PLACEHOLDER_HASH),
                      SPARSE_MERKLE_PLACEHOLDER_HASH),
                  SPARSE_MERKLE_PLACEHOLDER_HASH))

\* C18: get_child_with_siblings(node_key, n) returns the node key and the siblings, top
\* level first, of the walk from the root of that binary tree toward slot n: None where
\* the walk ends in an empty range, and the key of the collapsed leaf where it ends in
\* one, whatever the leaf's own index
C18_ChildWithSiblingsIsWalk ==
    (mode = "node" /\ probe.op[1] = "get_child_with_siblings")
        => probe.result = naive_get_child_with_siblings(from_clever_node(Unwrap(probe.node)),
                                                        probe.op[2], probe.op[3])
\* a lookup of an empty slot returned the collapsed leaf of its range, with fewer than
\* four siblings
C18_Witness ==
    /\ mode = "node" /\ probe.op[1] = "get_child_with_siblings"
    /\ ~IsSome(ChildAt(Unwrap(probe.node).children, probe.op[3]))
    /\ IsSome(probe.result[1])
    /\ Len(probe.result[2]) \in 2..3
    /\ probe.result[2][2] # SPARSE_MERKLE_PLACEHOLDER_HASH

\* C19: get_child_without_siblings(node_key, n) returns the first component of
\* get_child_with_siblings(node_key, n)
C19_WithoutSiblingsIsFirst ==
    (mode = "node" /\ probe.op[1] = "get_child_without_siblings")
        => probe.result =
              get_child_with_siblings(Unwrap(probe.node), probe.op[2], probe.op[3])[1]
\* a lookup without siblings of an empty slot returned the collapsed leaf of its range
C19_Witness ==
    /\ mode = "node" /\ probe.op[1] = "get_child_without_siblings"
    /\ ~IsSome(ChildAt(Unwrap(probe.node).children, probe.op[3]))
    /\ IsSome(probe.result)
    /\ NumChildren(Unwrap(probe.node).children) = MaxChildren

\* C20: decode(encode(n)) = n for every leaf and every internal node, with either value of
\* leaf_count_migration and any mix of Leaf, InternalLegacy and Internal children
C20_EncodeDecodeRoundTrip ==
    (mode = "node" /\ probe.op[1] = "decode") => probe.result = probe.node

\* the encoding keeps the node types of the children: the leaf counts are written, and
\* no child is Internal with the leaf count 0 that stands for InternalLegacy in the bytes;
\* or the leaf counts are not written, and no child is Internal
KeepsNodeTypes(node) ==
    \A i \in Slots :
        (IsSome(ChildAt(node.children, i))
         /\ Unwrap(ChildAt(node.children, i)).node_type.t = "Internal")
            => /\ node.leaf_count_migration
               /\ Unwrap(ChildAt(node.children, i)).node_type.leaf_count >= 1
\* C20, amended: decode(encode(n)) = n for every leaf, and for an internal node exactly
\* when its encoding keeps the node types of its children
C20_RoundTripWhenTypesKept ==
    (mode = "node" /\ probe.op[1] = "decode")
        => IF Unwrap(probe.node).type = "Leaf" THEN probe.result = probe.node
           ELSE (probe.result = probe.node) <=> KeepsNodeTypes(Unwrap(probe.node))
\* an internal node with a leaf, an InternalLegacy and an Internal child, whose leaf counts
\* are written, has come back from its bytes
C20_Witness ==
    /\ mode = "node" /\ probe.op[1] = "decode" /\ probe.result = probe.node
    /\ Unwrap(probe.node).type = "Internal" /\ Unwrap(probe.node).leaf_count_migration
    /\ \E i, j, k \in Slots :
          /\ IsSome(ChildAt(probe.children, i)) /\ IsSome(ChildAt(probe.children, j))
          /\ IsSome(ChildAt(probe.children, k))
          /\ Unwrap(ChildAt(probe.children, i)).node_type.t = "Leaf"
          /\ Unwrap(ChildAt(probe.children, j)).node_type.t = "InternalLegacy"
          /\ Unwrap(ChildAt(probe.children, k)).node_type.t = "Internal"

----------------------------------------------------------------------------
(* Encodings: node keys, varints and malformed input *)

\* C21: decoding the bytes NodeKey::encode wrote for a node key (any version, a nibble
\* path of any length up to ROOT_NIBBLE_HEIGHT, odd lengths padded with a zero nibble)
\* gives that node key back.
C21_NodeKeyRoundTrip ==
    (mode = "codec" /\ probe.op[1] = "key_decode") => probe.result = Some(probe.op[2])

\* a key of an odd number of nibbles and a version of four bytes has been encoded and read back
C21_Witness ==
    /\ mode = "codec" /\ probe.op[1] = "key_decode"
    /\ Len(probe.op[2].nibble_path) % 2 = 1
    /\ Len(probe.op[2].nibble_path) >= ROOT_NIBBLE_HEIGHT - 1
    /\ LastOf(probe.op[2].nibble_path) = 15
    /\ probe.op[2].version > 65536
    /\ Len(probe.bytes) = 9 + (Len(probe.op[2].nibble_path) + 1) \div 2
    /\ probe.result = Some(probe.op[2])

\* C22: for every 64-bit number, serialize_u64_varint pushes at most nine bytes, none of
\* its assertions fails, and deserialize_u64_varint reads the number back from the bytes
\* and reads all of them.
C22_VarintRoundTrip ==
    /\ (mode = "codec" /\ probe.op[1] \in {"varint", "varint_read"}) =>
          /\ Len(probe.bytes) >= 1 /\ Len(probe.bytes) <= 9
          /\ \A i \in 1..Len(probe.bytes) :
                probe.bytes[i].t = "u8" /\ probe.bytes[i].v \in 0..255
    /\ (mode = "codec" /\ probe.op[1] = "varint_read") =>
          probe.result = Some(<<probe.op[2], Len(probe.bytes) + 1>>)

\* a number of more than 56 bits has been written in nine bytes, the last one above 127,
\* and read back
C22_Witness ==
    /\ mode = "codec" /\ probe.op[1] = "varint_read"
    /\ probe.op[2][4] >= 32768 /\ probe.op[2][1] # 65535
    /\ Len(probe.bytes) = 9 /\ probe.bytes[9].v >= 128
    /\ probe.result = Some(<<probe.op[2], 10>>)

\* C23: Node::decode returns an error for empty input, an unknown tag, an existence bitmap
\* of zero, a leaf bitmap with a bit outside the existence bitmap, and bytes that end
\* before or inside a child's hash; NodeKey::decode returns an error for a number of nibbles
\* above ROOT_NIBBLE_HEIGHT and for a padding nibble that is not zero.
C23_MalformedRejected ==
    /\ (mode = "codec" /\ probe.op[1] = "decode_faulty") => probe.result = None
    /\ (mode = "codec" /\ probe.op[1] = "key_decode_stored") =>
          /\ probe.op[3] > ROOT_NIBBLE_HEIGHT => probe.result = None
          /\ (probe.op[3] % 2 = 1 /\ Len(probe.bytes) > 9
              /\ LastOf(probe.bytes).v % 16 # 0) => probe.result = None

\* the bytes of a node of two children, complete but for the end of the last hash, have
\* been decoded
C23_Witness ==
    /\ mode = "codec" /\ probe.op[1] = "decode_faulty" /\ probe.op[3] = <<"short_hash">>
    /\ NumChildren(probe.children) = 2
    /\ LastOf(probe.bytes) = ShortHash(ChildHashAt(15))
    /\ probe.result = None

----------------------------------------------------------------------------
(* Iterators side by side *)

\* what the iterator made by a constructor call yields when run alone: the pairs of its
\* version from the starting key on, or from the starting index on, read off the tree
YieldedAlone(ctor) ==
    IF ctor[1] = "new" THEN PairsAtOrAbove(ctor[2], ctor[3])
    ELSE Skip(PairsAtOrAbove(ctor[2], ZeroKey), ctor[3])
\* the reader has been given an iterator, no call of it has failed, and what it has
\* yielded so far agrees with alone, and is all of it at the end
YieldsAsAlone(reader, alone) ==
    /\ reader.it.status = "ok" /\ ~reader.failed
    /\ IsPrefixSeq(reader.items, alone)
    /\ reader.ended => reader.items = alone
\* a step of one reader's iterator leaves the store and every other reader as they were
OthersUntouched ==
    \A i \in 1..MaxReaders :
       readers'[i] # readers[i] =>
          /\ store' = store
          /\ \A j \in 1..MaxReaders \ {i} : readers'[j] = readers[j]

\* C24: iterators at the same or at different versions, whose next() calls interleave in
\* any order over a store that is not written to, each yield exactly what they would
\* yield if run alone, and a call of one changes nothing of another.
C24_ReadersIndependent ==
    /\ [](mode = "readers" =>
            \A i \in 1..MaxReaders :
               readers[i].ctor[1] # "none" =>
                  YieldsAsAlone(readers[i], YieldedAlone(readers[i].ctor)))
    /\ [][mode = "readers" => OthersUntouched]_vars

\* two readers at different versions have each called next() in the middle of the other's
\* run, and both have reached the end with different items
C24_Witness ==
    /\ mode = "readers"
    /\ readers[1].ended /\ readers[2].ended
    /\ readers[1].amid /\ readers[2].amid
    /\ readers[1].ctor[2] # readers[2].ctor[2]
    /\ Len(readers[1].items) >= 2 /\ Len(readers[2].items) >= 2
    /\ readers[1].items # readers[2].items
    /\ readers[1].items = YieldedAlone(readers[1].ctor)
    /\ readers[2].items = YieldedAlone(readers[2].ctor)

----------------------------------------------------------------------------
(* The partial nodes of a restorer *)

\* the slot is occupied by an internal child whose hash is not known yet
UnknownInternal(slot) == IsSome(slot) /\ Unwrap(slot).t = "Internal" /\ ~IsSome(Unwrap(slot).hash)

\* partial_nodes is the right spine of the tree built so far
RightSpine(r) ==
    /\ r.partial_nodes # <<>>
    /\ r.partial_nodes[1].node_key = new_empty_path(r.version)
    /\ \A i \in 1..(Len(r.partial_nodes) - 1) :
          /\ rposition(r.partial_nodes[i].children) >= 0
          /\ UnknownInternal(ChildAt(r.partial_nodes[i].children,
                                     rposition(r.partial_nodes[i].children)))
          /\ r.partial_nodes[i + 1].node_key =
                gen_child_node_key(r.partial_nodes[i].node_key, r.version,
                                   rposition(r.partial_nodes[i].children))
    /\ \A i \in 1..Len(r.partial_nodes) : \A n \in Slots :
          UnknownInternal(ChildAt(r.partial_nodes[i].children, n))
              => i < Len(r.partial_nodes) /\ n = rposition(r.partial_nodes[i].children)

\* C25: between add_one calls, for a fresh restorer and for one made by new on a store
\* that holds a part of the tree, partial_nodes is not empty, partial_nodes[0] is the root
\* with the empty path, the rightmost child of every partial node but the deepest is an
\* internal child of unknown hash whose node key is the next partial node's, and every
\* other internal child of a partial node has a known hash.
C25_RightSpine ==
    (mode = "restore" /\ rs.status = "open") => RightSpine(rs)

\* a restorer made by new after a restart has a spine of two or more partial nodes, with
\* an internal child of known hash left of the spine
C25_Witness ==
    /\ mode = "restore" /\ rs.status = "open"
    /\ last.op = "new" /\ run.restarts >= 1
    /\ Len(rs.partial_nodes) >= 2
    /\ \E i \in 1..Len(rs.partial_nodes) : \E n \in Slots :
          /\ IsSome(ChildAt(rs.partial_nodes[i].children, n))
          /\ Unwrap(ChildAt(rs.partial_nodes[i].children, n)).t = "Internal"
          /\ IsSome(Unwrap(ChildAt(rs.partial_nodes[i].children, n)).hash)

----------------------------------------------------------------------------
(* Freezing: leaves and popped partial nodes *)

\* the keys of the pairs received, in the order received
FedKeys == [i \in 1..Len(fed) |-> fed[i][1]]
\* the node keys under which the store holds a leaf node of key
LeafNodeKeys(st, key) ==
    {nk \in DOMAIN st.nodes : st.nodes[nk].type = "Leaf" /\ st.nodes[nk].key_hash = key}
\* the keys of the leaf nodes the store holds
LeafKeys(st) ==
    {st.nodes[nk].key_hash : nk \in {n \in DOMAIN st.nodes : st.nodes[n].type = "Leaf"}}
\* a restore that has not been interrupted
FreshRestore == mode = "restore" /\ run.restarts = 0

\* C26: in a fresh restore the leaf node of a received key is put into frozen_nodes once,
\* and not before the next key is added or finish is called: between calls the leaves of
\* all received keys but the most recent have been emitted, each once, and finish emits the
\* last; so after an add_chunk that returned Ok the store holds the value of every received
\* key and the leaf node of every received key but the most recent one.
C26_DeferredLeafFreezing ==
    /\ (FreshRestore /\ rs.status = "open") =>
          rs.emitted = Prefix(FedKeys, Max(Len(fed) - 1, 0))
    /\ (FreshRestore /\ rs.status = "finished") => rs.emitted = FedKeys
    /\ (FreshRestore /\ last.op = "add_chunk" /\ last.result = "Ok") =>
          /\ LeafKeys(store) = {fed[i][1] : i \in 1..(Len(fed) - 1)}
          /\ \A i \in 1..(Len(fed) - 1) : Cardinality(LeafNodeKeys(store, fed[i][1])) = 1
          /\ \A i \in 1..Len(fed) : get_value(store, rs.version, fed[i][1]) = Some(fed[i][2])

\* two chunks have been added to a fresh restorer, three keys in all: the store holds the
\* leaves of the first two, and the value but not the leaf of the third
C26_Witness ==
    /\ FreshRestore /\ rs.status = "open" /\ last.op = "add_chunk" /\ last.result = "Ok"
    /\ Len(fed) >= 3 /\ rs.num_keys_received = Len(fed)
    /\ Len(rs.emitted) = Len(fed) - 1
    /\ LeafNodeKeys(store, fed[Len(fed)][1]) = {}
    /\ LeafNodeKeys(store, fed[1][1]) # {}
    /\ get_value(store, rs.version, fed[Len(fed)][1]) = Some(fed[Len(fed)][2])

\* the keys a restorer holds: those of the leaves in the store and in frozen_nodes, and
\* that of its previous leaf; a restorer made by new_overwrite has taken nothing from the
\* store, and holds the keys of the leaves it has emitted itself and of its previous leaf
HeldKeys ==
    (IF run.overwriting THEN {rs.emitted[i] : i \in 1..Len(rs.emitted)}
     ELSE LeafKeys(store) \cup LeafKeys(rs.frozen_nodes))
    \cup (IF IsSome(rs.previous_leaf) THEN {Unwrap(rs.previous_leaf).key_hash} ELSE {})
\* the subtree of the held keys under a nibble path, built the usual way
HeldSubtree(nibble_path) ==
    RefNode([k \in HeldKeys |-> tree[k]], rs.version, nibble_path)

\* every internal child of the partial node has a known hash
AllHashesKnown(node) == \A n \in Slots : ~UnknownInternal(ChildAt(node.children, n))

\* C27: whenever freeze_internal_nodes pops a partial node, every internal child of that
\* node has a known hash; and when a partial node remains above it, the rightmost child
\* of that node is Internal with no hash and the leaf count 0 before, and after the patch
\* Internal with the hash of the popped node and with the number of keys received under the
\* nibble path of the popped node as its leaf count.
C27_PoppedNodesComplete ==
    (mode = "restore" /\ "pops" \in DOMAIN rs) =>
        \A i \in 1..Len(rs.pops) :
            /\ AllHashesKnown(rs.pops[i].node)
            /\ rs.pops[i].has_parent =>
                  rs.pops[i].parent_before = Some(ChildInfoInternal(None, 0))
            /\ (rs.pops[i].has_parent /\ rs.pops[i].patched) =>
                  rs.pops[i].parent_after =
                     Some(ChildInfoInternal(
                             Some(NodeHash(HeldSubtree(rs.pops[i].node.node_key.nibble_path))),
                             Cardinality(KeysUnder(HeldKeys,
                                                   rs.pops[i].node.node_key.nibble_path))))

\* a partial node two levels below the root, with two leaves, has been popped and the
\* partial node above it patched
C27_Witness ==
    /\ mode = "restore" /\ rs.status = "open"
    /\ \E i \in 1..Len(rs.pops) :
          /\ rs.pops[i].has_parent /\ rs.pops[i].patched
          /\ Len(rs.pops[i].node.node_key.nibble_path) >= 2
          /\ IsSome(rs.pops[i].parent_after)
          /\ Unwrap(rs.pops[i].parent_after).leaf_count >= 2

----------------------------------------------------------------------------
(* Left siblings *)

\* the children of the range that exist
RangeChildren(children, start, width) ==
    {n \in start..(start + width - 1) : IsSome(ChildAt(children, n))}
\* the range is empty, or holds one child and that child is a leaf
EmptyOrOneLeaf(children, start, width) ==
    \/ RangeChildren(children, start, width) = {}
    \/ /\ Cardinality(RangeChildren(children, start, width)) = 1
       /\ \A n \in RangeChildren(children, start, width) :
             Unwrap(ChildAt(children, n)).t = "Leaf"
\* compute_left_sibling_impl returned over the range what merkle_hash returns over it of
\* the node made of the same children, and the flag of an empty or single-leaf range
AgreesWithMerkleHash ==
    probe.result =
       Some(<<merkle_hash(Unwrap(probe.node)[2], probe.op[2], probe.op[3],
                          generate_bitmaps(Unwrap(probe.node)[2])),
              EmptyOrOneLeaf(probe.children, probe.op[2], probe.op[3])>>)
\* compute_left_sibling_impl has been called on children a node can be made of
SiblingComputed ==
    mode = "node" /\ probe.op[1] = "compute_left_sibling_impl" /\ IsSome(probe.node)

\* C28: for sixteen ChildInfo slots whose internal children have known hashes and any
\* aligned power-of-two range, compute_left_sibling_impl returns the hash that merkle_hash
\* returns over that range of the corresponding node, and TRUE exactly when the range is
\* empty or collapses to a single leaf.
C28_LeftSiblingIsMerkleHash == SiblingComputed => AgreesWithMerkleHash

\* a range of four slots holding a single leaf, in a node with an internal child as well:
\* the hash is that of the leaf and the flag is TRUE
C28_Witness ==
    /\ SiblingComputed
    /\ probe.op[3] = 4
    /\ Cardinality(RangeChildren(probe.children, probe.op[2], probe.op[3])) = 1
    /\ \E n \in Slots : /\ IsSome(ChildAt(probe.children, n))
                        /\ Unwrap(ChildAt(probe.children, n)).t = "Internal"
    /\ IsSome(probe.result) /\ Unwrap(probe.result)[2]
    /\ Unwrap(probe.result)[1] # SPARSE_MERKLE_PLACEHOLDER_HASH

----------------------------------------------------------------------------
(* The left siblings handed to the range proof *)

\* the hash of the sparse Merkle tree of the keys of S, which agree on their first d bits
RECURSIVE SparseHash(_, _, _)
SparseHash(t, S, d) ==
    IF S = {} THEN SPARSE_MERKLE_PLACEHOLDER_HASH
    ELSE IF Cardinality(S) = 1
    THEN SparseMerkleLeafNodeHash(CHOOSE k \in S : TRUE,
                                  ValueHashWith(t[CHOOSE k \in S : TRUE].value))
    ELSE SparseMerkleInternalNodeHash(SparseHash(t, {k \in S : KeyBit(k, d) = 0}, d + 1),
                                      SparseHash(t, {k \in S : KeyBit(k, d) = 1}, d + 1))
\* the sibling on the left of bit i of the key: the tree of the held keys that share the
\* first i bits of the key and have bit i clear
LeftSiblingAt(key, i) ==
    SparseHash([k \in HeldKeys |-> tree[k]],
               {k \in HeldKeys : /\ KeyBit(k, i) = 0
                                 /\ \A b \in 0..(i - 1) : KeyBit(k, b) = KeyBit(key, b)},
               i + 1)
\* the set bits of a key, those nearer the root first
RECURSIVE SetBitsFrom(_, _)
SetBitsFrom(key, i) ==
    IF i = NumBits THEN <<>>
    ELSE (IF KeyBit(key, i) = 1 THEN <<i>> ELSE <<>>) \o SetBitsFrom(key, i + 1)
\* the verify of the last add_chunk, which ran on the restorer as it is now, got as far as
\* the range proof: the pairs were added, and the proof has no more right siblings than
\* the key of previous_leaf has clear bits
VerifyRan ==
    /\ mode = "restore" /\ last.op = "add_chunk" /\ rs.status = "open"
    /\ last.result \in {"Ok", "VerificationFailed"}
    /\ IsSome(rs.previous_leaf)
    /\ Unwrap(LeftSiblingsFrom(rs, Unwrap(rs.previous_leaf).key_hash, 0, <<>>, 0))[2]
          >= Len(last.proof)
\* the list the verify of the last add_chunk handed to the range proof
HandedToProof ==
    LET key == Unwrap(rs.previous_leaf).key_hash
        first == Unwrap(LeftSiblingsFrom(rs, key, 0, <<>>, 0))
    IN LeftSiblingsHanded(Unwrap(TrimLeftSiblings(key, NumBits - 1, first[1], first[2],
                                                  Len(last.proof))))
\* the list holds the left siblings of the set bits of the key nearest the root, those
\* nearer the root first
HandedTopDown ==
    \A j \in 1..Len(HandedToProof) :
       HandedToProof[j] =
          LeftSiblingAt(Unwrap(rs.previous_leaf).key_hash,
                        SetBitsFrom(Unwrap(rs.previous_leaf).key_hash, 0)[j])
\* the same siblings, those of the deeper bits first
HandedBottomUp ==
    \A j \in 1..Len(HandedToProof) :
       HandedToProof[j] =
          LeftSiblingAt(Unwrap(rs.previous_leaf).key_hash,
                        SetBitsFrom(Unwrap(rs.previous_leaf).key_hash,
                                    0)[Len(HandedToProof) - j + 1])

\* C29 as stated: the left siblings verify hands to the range proof are in root-to-leaf
\* order, the sibling of a bit nearer the root before the sibling of a deeper bit.
C29_AsStated == VerifyRan => HandedTopDown

\* C29: the left siblings verify hands to the range proof are in leaf-to-root order, the
\* sibling of a deeper bit of the key of previous_leaf before the sibling of a bit nearer
\* the root.
C29_LeftSiblingsBottomUp == VerifyRan => HandedBottomUp

\* verify has handed over two left siblings that differ
C29_Witness ==
    /\ VerifyRan
    /\ Len(HandedToProof) >= 2
    /\ HandedToProof[1] # HandedToProof[2]
    /\ HandedToProof[1] # SPARSE_MERKLE_PLACEHOLDER_HASH

----------------------------------------------------------------------------
(* The stack of an iterator *)

\* the keys of the tree the iterator walks, and those of them it has yielded
WalkedKeys == KeysAt(tree, it.version)
YieldedKeys == {out.items[i][1] : i \in 1..Len(out.items)}
\* the keys the constructor skipped: those below the starting key, or the first start_idx
SkippedKeys ==
    IF out.ctor[1] = "new" THEN {k \in WalkedKeys : KeyLess(k, out.ctor[3])}
    ELSE {SortedKeys(WalkedKeys)[i] : i \in 1..Min(out.ctor[3], Cardinality(WalkedKeys))}
\* the keys of the tree under the child n of the node of a stack entry
KeysUnderChild(info, n) == KeysUnder(WalkedKeys, Append(info.node_key.nibble_path, n))
\* the child a stack entry points at
NextChild(info) == trailing_zeros(info.next_child_to_visit)

\* next_child_to_visit has one bit set and it is the bit of an existing child; the bitmap
\* is that of the node
PointsAtChild(info) ==
    /\ info.children_bitmap = generate_bitmaps(info.node)[1]
    /\ count_ones(info.next_child_to_visit) = 1
    /\ BitAnd(info.next_child_to_visit, info.children_bitmap) # 0
    /\ IsSome(ChildAt(info.node.children, NextChild(info)))
\* the assertion of is_rightmost
IsRightmostAsserted(info) ==
    leading_zeros(info.next_child_to_visit) >= leading_zeros(info.children_bitmap)
\* the children below the one pointed at have been yielded or skipped
LowerChildrenDone(info) ==
    \A n \in 0..(NextChild(info) - 1) :
       KeysUnderChild(info, n) \subseteq (YieldedKeys \cup SkippedKeys)
\* nothing under the children from index n on has been yielded or skipped
ChildrenUntouchedFrom(info, n) ==
    \A m \in n..15 : KeysUnderChild(info, m) \cap (YieldedKeys \cup SkippedKeys) = {}
\* the existing children from index n on have not been visited yet: under each of them
\* a key is still to be yielded
ChildrenUnvisitedFrom(info, n) ==
    \A m \in n..15 :
       IsSome(ChildAt(info.node.children, m)) =>
          KeysUnderChild(info, m) \ (YieldedKeys \cup SkippedKeys) # {}
\* the entry above entry j of the stack is the node of the child entry j points at
DescendedInto(stack, j) ==
    stack[j + 1].node_key.nibble_path =
       Append(stack[j].node_key.nibble_path, NextChild(stack[j]))
\* an iterator has been constructed and no call has failed
Walking == mode = "iterate" /\ it.status = "ok" /\ ~out.failed

\* the bit of every stack entry names an existing child, it is not above the highest
\* child, and the children below it have been visited
StackEntriesSound ==
    \A j \in 1..Len(it.parent_stack) :
       /\ PointsAtChild(it.parent_stack[j])
       /\ IsRightmostAsserted(it.parent_stack[j])
       /\ LowerChildrenDone(it.parent_stack[j])
\* in an entry that stays on the stack the bit only moves to a higher child
BitOnlyMovesUp ==
    (Walking /\ it'.status = "ok") =>
       \A j \in 1..Min(Len(it.parent_stack), Len(it'.parent_stack)) :
          it'.parent_stack[j].node_key = it.parent_stack[j].node_key =>
             it'.parent_stack[j].next_child_to_visit >= it.parent_stack[j].next_child_to_visit
\* no constructor and no call of next() has panicked
NoAssertionFailed == mode = "iterate" => (it.status # "panic" /\ ~out.failed)

\* C30: in every stack entry next_child_to_visit has one bit set, that of an existing
\* child; the existing children below it have all been yielded or skipped, and every
\* existing child at or above it is still unvisited (its visit is not completed: a key
\* under it is still to be yielded). Those above the bit are untouched; the child at the
\* bit is untouched in the top entry, and in every other entry it is the node of the
\* entry above. A bit only ever moves to a higher existing child, and no assertion of
\* NodeVisitInfo fails.
C30_StackEntries ==
    /\ [](Walking =>
            /\ StackEntriesSound
            /\ \A j \in 1..Len(it.parent_stack) :
                  /\ ChildrenUnvisitedFrom(it.parent_stack[j], NextChild(it.parent_stack[j]))
                  /\ ChildrenUntouchedFrom(it.parent_stack[j], NextChild(it.parent_stack[j]) + 1)
                  /\ IF j = Len(it.parent_stack)
                     THEN ChildrenUntouchedFrom(it.parent_stack[j], NextChild(it.parent_stack[j]))
                     ELSE DescendedInto(it.parent_stack, j))
    /\ []NoAssertionFailed
    /\ [][BitOnlyMovesUp]_vars

\* two entries are on the stack, a key under the child the lower one points at has been
\* yielded and another is still to come, and the upper one has been advanced past the
\* yielded one
C30_Witness ==
    /\ Walking /\ Len(it.parent_stack) >= 2
    /\ KeysUnderChild(it.parent_stack[1], NextChild(it.parent_stack[1])) \cap YieldedKeys # {}
    /\ KeysUnderChild(it.parent_stack[1], NextChild(it.parent_stack[1])) \ YieldedKeys # {}
    /\ KeysUnderChild(it.parent_stack[2], NextChild(it.parent_stack[2])) \cap YieldedKeys = {}
    /\ KeysUnderChild(it.parent_stack[2], NextChild(it.parent_stack[2])) # {}

----------------------------------------------------------------------------
(* The staging buffer *)

\* a restorer is at work, with a genuine or with a faulty sender
Restoring == mode \in {"restore", "adversary"}
\* every node and every value of the batch is in the store, as the batch has it
Holds(st, b) ==
    /\ \A nk \in DOMAIN b.nodes : nk \in DOMAIN st.nodes /\ st.nodes[nk] = b.nodes[nk]
    /\ \A vk \in DOMAIN b.values : vk \in DOMAIN st.values /\ st.values[vk] = b.values[vk]
\* the step is an add_chunk that returns Ok
AddChunkOk == Restoring /\ rs.status = "open" /\ last'.op = "add_chunk" /\ last'.result = "Ok"
\* the pairs of the chunk of such a step
ChunkAdded == SubSeq(fed', Len(fed) + 1, Len(fed'))
\* what frozen_nodes holds in such a step when the loop over the chunk is through
Staged == AddChunkLoop(rs, ChunkAdded, 1)[1].frozen_nodes
\* an add_chunk that returns Ok has written all that frozen_nodes held to the store
FlushedAtBoundary == AddChunkOk => Holds(store', Staged)

\* C31: after every add_chunk that returned Ok frozen_nodes is empty, and everything it
\* held was written to the store in that call; an open restorer never has more partial
\* nodes than a key has nibbles (64).
C31_StagingFlushed ==
    /\ []((Restoring /\ last.op = "add_chunk" /\ last.result = "Ok") =>
             (rs.status = "open" /\ BatchIsEmpty(rs.frozen_nodes)))
    /\ []((Restoring /\ rs.status = "open") => Len(rs.partial_nodes) <= ROOT_NIBBLE_HEIGHT)
    /\ [][FlushedAtBoundary]_vars

\* an add_chunk has returned Ok after one that had failed; the store holds an internal node
\* and a leaf, and the restorer has partial nodes below the root
C31_Witness ==
    /\ mode = "adversary" /\ last.op = "add_chunk" /\ last.result = "Ok" /\ run.errors >= 1
    /\ BatchIsEmpty(rs.frozen_nodes)
    /\ Len(rs.partial_nodes) >= 2
    /\ \E nk \in DOMAIN store.nodes : store.nodes[nk].type = "Internal"
    /\ \E nk \in DOMAIN store.nodes : store.nodes[nk].type = "Leaf"

----------------------------------------------------------------------------
(* Opening a restorer *)

\* new() has just returned
Opened == mode = "restore" /\ last.op = "new"
\* the rightmost leaf of the store sits at the empty nibble path
RightmostLeafAtRoot ==
    /\ IsSome(get_rightmost_leaf(store))
    /\ Unwrap(get_rightmost_leaf(store))[1].nibble_path = <<>>
\* new() reads the store only
NewLeavesStore == (mode = "restore" /\ last'.op = "new") => store' = store

\* C32: new() on a store whose rightmost leaf sits at the empty nibble path returns an
\* error, builds no restorer and leaves the store as it is; on a store without a rightmost
\* leaf it starts afresh: one partial node, the empty root, and no previous leaf.
C32_NewAtRootLeafOrFresh ==
    /\ []((Opened /\ RightmostLeafAtRoot) => (rs = [status |-> "err"] /\ last.result = "err"))
    /\ []((Opened /\ ~IsSome(get_rightmost_leaf(store))) =>
             /\ rs.status = "open"
             /\ rs.partial_nodes = <<InternalInfoNewEmpty(new_empty_path(rs.version))>>
             /\ rs.previous_leaf = None
             /\ rs.num_keys_received = 0 /\ BatchIsEmpty(rs.frozen_nodes))
    /\ [][NewLeavesStore]_vars

\* a restore of a single key was finished, and new() was called on the store it left
C32_Witness ==
    /\ Opened /\ RightmostLeafAtRoot /\ run.restarts >= 1 /\ run.finished
    /\ rs.status = "err" /\ Len(fed) = 1

----------------------------------------------------------------------------
(* The partial nodes recovered from a store *)

\* new() has just made a restorer of a store that holds a rightmost leaf
Resumed == Opened /\ rs.status = "open" /\ IsSome(get_rightmost_leaf(store))
\* the nibble path of the stored rightmost leaf
RightmostPath == Unwrap(get_rightmost_leaf(store))[1].nibble_path
\* the store holds a node at the path, at the version of the restorer
Stored(nibble_path) == NodeKeyNew(rs.version, nibble_path) \in DOMAIN store.nodes
\* what a slot of a recovered partial node holds of the node stored below it
FromStorage(nibble_path, n) ==
    IF ~Stored(Append(nibble_path, n)) THEN None
    ELSE IF store.nodes[NodeKeyNew(rs.version, Append(nibble_path, n))].type = "Leaf"
    THEN Some(ChildInfoLeaf(store.nodes[NodeKeyNew(rs.version, Append(nibble_path, n))]))
    ELSE Some(ChildInfoInternal(
                 Some(NodeHash(store.nodes[NodeKeyNew(rs.version, Append(nibble_path, n))])),
                 Unwrap(store.nodes[NodeKeyNew(rs.version,
                                               Append(nibble_path, n))].leaf_count)))
\* the deepest proper ancestor of the rightmost leaf that the store does not hold
DeepestAbsent(nibble_path) ==
    /\ Len(nibble_path) < Len(RightmostPath) /\ IsPrefix(nibble_path, RightmostPath)
    /\ ~Stored(nibble_path)
    /\ \A n \in (Len(nibble_path) + 1)..(Len(RightmostPath) - 1) :
          Stored(Prefix(RightmostPath, n))
\* a partial node above the last: the slot towards the next is an internal child of unknown
\* hash, the slots on its left are as stored, those on its right are empty
AboveLast(info, next) ==
    \E n \in Slots :
       /\ next.node_key = NodeKeyNew(rs.version, Append(info.node_key.nibble_path, n))
       /\ ChildAt(info.children, n) = Some(ChildInfoInternal(None, 0))
       /\ \A m \in 0..(n - 1) :
             ChildAt(info.children, m) = FromStorage(info.node_key.nibble_path, m)
       /\ \A m \in (n + 1)..15 : ChildAt(info.children, m) = None

\* C33: the partial nodes recover_partial_nodes returns are top-down: the first is the
\* root at the empty path, the last is the deepest ancestor of the stored rightmost leaf
\* that the store does not hold; every one but the last has Internal{None, 0} in the slot
\* towards the next and, of the other slots, only those on its left filled, from storage;
\* the last has all sixteen slots as stored, leaves as Leaf and internal nodes as Internal
\* with their hash and leaf count.
C33_RecoveredSpine ==
    Resumed =>
       /\ rs.partial_nodes # <<>>
       /\ rs.partial_nodes[1].node_key = new_empty_path(rs.version)
       /\ DeepestAbsent(LastOf(rs.partial_nodes).node_key.nibble_path)
       /\ LastOf(rs.partial_nodes).node_key.version = rs.version
       /\ \A i \in 1..(Len(rs.partial_nodes) - 1) :
             AboveLast(rs.partial_nodes[i], rs.partial_nodes[i + 1])
       /\ \A n \in Slots :
             ChildAt(LastOf(rs.partial_nodes).children, n) =
                FromStorage(LastOf(rs.partial_nodes).node_key.nibble_path, n)

\* a restorer recovered with two partial nodes: the root points at the second, which
\* is above the stored rightmost leaf and holds a stored internal node with its two leaves
C33_Witness ==
    /\ Resumed /\ Len(rs.partial_nodes) = 2
    /\ Len(RightmostPath) = 3
    /\ \E n \in Slots :
          /\ Stored(Append(LastOf(rs.partial_nodes).node_key.nibble_path, n))
          /\ ChildAt(LastOf(rs.partial_nodes).children, n) =
                Some(ChildInfoInternal(
                        Some(NodeHash(store.nodes[NodeKeyNew(rs.version,
                                Append(LastOf(rs.partial_nodes).node_key.nibble_path, n))])),
                        2))

----------------------------------------------------------------------------
(* The version of the nodes a restorer emits *)

\* the versions in the child records of a node
ChildVersions(node) ==
    IF node.type = "Internal"
    THEN {Unwrap(ChildAt(node.children, n)).version :
            n \in {m \in Slots : IsSome(ChildAt(node.children, m))}}
    ELSE {}
\* every node key of the batch and every child record of its internal nodes has the version
AtVersion(b, version) ==
    \A nk \in DOMAIN b.nodes :
        nk.version = version /\ ChildVersions(b.nodes[nk]) \subseteq {version}
\* the nodes a step has written to the store
NodesWritten ==
    [nodes |-> [nk \in {k \in DOMAIN store'.nodes :
                           k \notin DOMAIN store.nodes \/ store'.nodes[k] # store.nodes[k]}
                    |-> store'.nodes[nk]],
     values |-> EmptyMap]
Emitting == rs.status \in {"open", "finished"}

\* C34: every node a restorer emits has the restorer's version in its node key, and every
\* child record of an emitted internal node has that version too, also when the restorer
\* was opened by new() on a store that is not empty
C34_EmittedAtVersion ==
    /\ [](Emitting => AtVersion(rs.frozen_nodes, rs.version))
    /\ [][rs.status = "open" => AtVersion(NodesWritten, rs.version)]_vars

----------------------------------------------------------------------------
(* Nodes are written once *)

NoDuplicates(seq) == \A i, j \in 1..Len(seq) : seq[i] = seq[j] => i = j
\* one restore: fresh, or resumed by new() on the store it left behind, every chunk being
\* the genuine one that follows the previous leaf of the restorer it is given to
OneRestore == mode = "restore" /\ run.aligned /\ ~run.overwriting
\* the step leaves every node of the store in place and as it was
StoredNodesKept ==
    \A nk \in DOMAIN store.nodes : nk \in DOMAIN store'.nodes /\ store'.nodes[nk] = store.nodes[nk]
\* the batch a step hands to write_node_batch: add_chunk what the loop over the chunk has
\* staged, finish what freeze(0) has
BatchWritten == IF last'.op = "add_chunk" THEN Staged ELSE rs'.frozen_nodes
\* the step writes no node under a node key the store has already
NoKeyWrittenAgain ==
    ((last'.op = "add_chunk" /\ last'.result = "Ok") \/ (last'.op = "finish" /\ last'.result = "Ok"))
        => DOMAIN BatchWritten.nodes \cap DOMAIN store.nodes = {}

\* C35: during one restore (fresh, or resumed and fed the keys after the stored rightmost
\* leaf) no node key is inserted into frozen_nodes twice, no batch written to the store has a
\* node key the store already holds, and no stored node is changed
C35_NodesWrittenOnce ==
    /\ []((OneRestore /\ "node_keys" \in DOMAIN rs) => NoDuplicates(rs.node_keys))
    /\ [][(OneRestore /\ run'.aligned /\ rs.status = "open") => (StoredNodesKept /\ NoKeyWrittenAgain)]_vars

\* a restore that was resumed after an add_chunk had written nodes has finished: the
\* resumed restorer has emitted leaves and internal nodes, the root among them, on a store
\* that held nodes when it was opened
C35_Witness ==
    /\ OneRestore /\ Interrupted /\ last.op = "finish" /\ last.result = "Ok"
    /\ Len(rs.node_keys) >= 3
    /\ new_empty_path(MaxVersion) \in {rs.node_keys[i] : i \in 1..Len(rs.node_keys)}
    /\ \E nk \in DOMAIN store.nodes : nk \notin {rs.node_keys[i] : i \in 1..Len(rs.node_keys)}

----------------------------------------------------------------------------
(* A next() that returns an error *)

\* the step is a next() call that returned an error
NextFailed == mode = "failing" /\ run'.errors = run.errors + 1
\* what next() returns when the reads succeed
WouldReturn(iter) == IteratorNext(store, iter).result
\* after the error, next() returns what it would have returned in place of the error
PositionKept == NextFailed => WouldReturn(it') = WouldReturn(it)

\* C36: a next() that returns an error because a node read or a value read failed leaves
\* the position of the iterator as it was: when the reads succeed again the following
\* next() returns what the failed call would have returned, and the iterator yields every
\* pair from its starting key on; for a tree with an internal root and for a single leaf
C36_ErrorKeepsPosition ==
    /\ [][PositionKept]_vars
    /\ []((mode = "failing" /\ out.ctor[1] = "new")
            => YieldsExactly(PairsAtOrAbove(out.ctor[2], out.ctor[3])))

----------------------------------------------------------------------------
(* Assertions of the restorer *)

\* the step is an add_chunk, or a finish of a restorer that has received a key
CalledAsMeant ==
    /\ mode = "adversary" /\ rs.status = "open"
    /\ last'.op = "add_chunk" \/ (last'.op = "finish" /\ rs.num_keys_received >= 1)
\* the call has returned: Ok or one of the errors (of the chunk, the proof or the write)
Returned == last'.result # "panic" /\ rs'.status # "panic"

\* C37: on a fresh restorer no add_chunk, whatever its chunk and its proof, and no finish
\* that follows the receipt of a key reaches an assertion, an expect or a panic
C37_NoPanic == [][CalledAsMeant => Returned]_vars

----------------------------------------------------------------------------
(* What a failed add_chunk has staged *)

\* what frozen_nodes holds when a call begins: add_chunk clears it before it returns Ok, so
\* this is what the add_chunk calls that returned an error have staged
LeftStaged == rs.frozen_nodes
\* the step writes nothing of it to the store
LeftStagedNotWritten ==
    /\ \A nk \in DOMAIN LeftStaged.nodes : nk \in DOMAIN store'.nodes => nk \in DOMAIN store.nodes
    /\ \A vk \in DOMAIN LeftStaged.values : vk \in DOMAIN store'.values => vk \in DOMAIN store.values

\* C38: the values and the nodes that an add_chunk which returned an error has staged in
\* frozen_nodes are never written to the store by a later add_chunk or finish of the restorer
C38_FailedStagingNotPersisted ==
    [][(mode = "adversary" /\ rs.status = "open") => LeftStagedNotWritten]_vars

----------------------------------------------------------------------------
(* Chunking *)

\* the whole stream has been restored without a restart, in genuine chunks, and finish
\* has been called
RestoredInChunks ==
    /\ mode = "restore" /\ StraightRun
    /\ last.op = "finish" /\ fed = stream /\ stream # <<>>

\* C39: however the stream is cut into non-empty chunks, each with its genuine proof, the
\* store after finish holds the nodes and the values that the restore with one chunk
\* holding everything leaves
C39_ChunkingDoesNotMatter ==
    RestoredInChunks => (last.result = "Ok" /\ store = UninterruptedStore)

\* a stream of MaxKeys pairs was restored one pair per chunk, and the store holds internal
\* nodes and leaves
C39_Witness ==
    /\ RestoredInChunks /\ Len(stream) = MaxKeys /\ run.chunks = MaxKeys
    /\ store = UninterruptedStore
    /\ \E nk \in DOMAIN store.nodes : store.nodes[nk].type = "Internal" /\ nk.nibble_path # <<>>

============================================================================
